---- MODULE Spec2Model ----
(***************************************************************************)
(* terrakubed: the job scheduling and execution pipeline.                  *)
(*                                                                         *)
(*   Spec        control-plane job/step rows, the scheduler's pollJobs     *)
(*               loop, the dispatch goroutine and JobProcessor.ProcessJob  *)
(*               with its status reports.                                  *)
(*   SpecScript  script.Executor: Execute and ExecutePhase over a job's    *)
(*               CommandList.                                              *)
(*   SpecLog     logs.RedisStreamer: Write and Close against a Redis       *)
(*               stream whose XADD may fail.                               *)
(*   SpecPlan    the saved plan of a job: upload by the Plan step,         *)
(*               download and apply by the Apply step.                     *)
(*   SpecCreds   the job goroutines of one online executor process and     *)
(*               the credentials file in the home directory.               *)
(*   SpecInstall concurrent VersionManager.Install calls on one cache      *)
(*               directory.                                                *)
(*   SpecAuth    the internal token: GenerateTerrakubeToken, ValidateToken *)
(*               and the API AuthMiddleware.                               *)
(*   SpecRegistry the routes of the registry and jwtAuthMiddleware.        *)
(*   SpecVars    the variables of the ExecutionContext: loadVariables.     *)
(*   SpecFair    Spec with the scheduler loop and every goroutine          *)
(*               scheduled fairly.                                         *)
(*   SpecTf      one executeTerraform call: script phases, init, the IaC   *)
(*               command, uploads and the status report.                   *)
(*   SpecClone   git.Service.CloneRepository and its temp directories.     *)
(*   SpecJwks    the JWKS cache of the OIDC validation: getJWKS.           *)
(*   SpecStore   the state endpoints: the executor's state JSON upload,    *)
(*               PUT archive and GET state of TerraformStateHandler.       *)
(*   SpecTable   pollJobs over a job table longer than its LIMIT, with a   *)
(*               working database and a fair ticker.                       *)
(*   SpecArt     ProcessJob and the stored artifacts of a workspace over   *)
(*               several runs.                                             *)
(*   SpecKey     the Redis stream key of a job, written by the streamers   *)
(*               of its steps.                                             *)
(*   SpecPod     the dispatch payload of an ephemeral worker: Marshal of   *)
(*               the ExecutionContext, Unmarshal in LoadConfig.            *)
(***************************************************************************)
EXTENDS Integers, Sequences, FiniteSets, TLC

\* ------------------------------------------------------------------------
\* Bounds of the model
\* ------------------------------------------------------------------------
NumJobs == 1
NumSteps == 2
MaxDispatch == 2
\* script runner: length of the freely chosen command lists
MaxCmds == 3
\* log streamer: bytes per Write, bytes written in total
MaxBlock == 2
MaxBytes == 4
\* saved plan: ids of organizations, workspaces and jobs; steps of a job
NumIds == 2
NumStepIds == 3
\* job goroutines of one online executor process
NumWorkers == 2
\* concurrent callers of VersionManager.Install
NumCallers == 2
\* characters of a configured secret
MaxSecretLen == 4
\* variable keys of a category
NumKeys == 2
\* JWKS cache: concurrent OIDC validations, ticks of the clock
NumRows == 11
MaxRuns == 3

NumValidators == 2
MaxTicks == 3

\* ------------------------------------------------------------------------
\* Program constants
\* ------------------------------------------------------------------------
\* LIMIT of the scheduler's SELECT
Limit == 10
\* jwksCacheTTL, in minutes
jwksCacheTTL == 10

Jobs == 1..NumJobs
Steps == 1..NumSteps

JobTypes == {"terraformPlan", "terraformApply", "terraformDestroy",
             "customScripts", "approval", "unknown"}
TerraformTypes == {"terraformPlan", "terraformApply", "terraformDestroy"}
ScriptTypes == {"customScripts", "approval"}

\* How the scheduler's executor backend reaches ProcessJob.
ExecutorModes == {"INLINE", "ONLINE", "BATCH"}
\* StorageService behind the processor: an object store or NopStorageService.
StorageTypes == {"OBJECT", "NOP"}

VARIABLES
    payload,      \* TerraformJob attributes handed to ProcessJob: Type, IgnoreError
    executorMode, \* how ProcessJob is entered (inline call, online server, batch worker)
    storageType,  \* configured StorageService
    jobStatus,    \* control plane: job row status
    stepStatus,   \* control plane: step row status, per (job, step)
    sched,        \* scheduler loop: pc, fetched rows, step chosen for the current row
    run,          \* per job: the dispatch goroutine and the ProcessJob call it makes
    dispatched,   \* per (job, step): how many times pollJobs dispatched it (capped)
    CommandList,  \* script runner: job.CommandList
    lastCall,     \* script runner: the last call made, "Execute" or a phase
    executed,     \* script runner: the scripts that call ran, in order
    execErr,      \* script runner: whether that call returned an error
    buf,          \* log streamer: r.buf
    lineNumber,   \* log streamer: r.lineNumber
    stream,       \* log streamer: the entries of the Redis stream
    written,      \* log streamer: bytes handed to Write so far
    closed,       \* log streamer: Close was called
    logBuffer,    \* log streamer: the in-memory buffer behind the MultiStreamer
    ret,          \* log streamer: the last Write, its block and what it returned
    objects,      \* saved plan: the objects of the storage service, key -> content
    flow,         \* saved plan: the Plan step and the Apply step of one job
    rc,           \* credentials: the content of $HOME/.terraformrc
    InternalSecret, \* credentials: Config.InternalSecret is set
    worker,       \* credentials: the position of each job goroutine
    cache,        \* install: CacheDir/tofu, version -> the files of tofu-<version>
    inst,         \* install: each caller's Install call
    config,       \* auth: AuthConfig, InternalSecret and PatSecret
    auth,         \* auth: the token at hand, the request and the answer
    cfg,          \* registry: config.Config, AuthValidationType and IssuerUri
    registry,     \* registry: the request and the answer
    db,           \* variables: the rows of the tables globalvar and variable
    execCtx,      \* variables: the ExecutionContext being built
    tf,           \* phases: one executeTerraform call, its job and what it ran
    clone,        \* module clone: one CloneRepository call and the temp directories
    jwks,         \* JWKS cache: the clock, the cache and the getJWKS calls
    store,        \* state endpoints: the objects, the history rows and the last answer
    jobTable,     \* job table of the scheduler under a working database
    art,          \* stored artifacts: one job after another against the object store
    rkey,         \* Redis: the stream key of one job, written by the streamers of its steps
    pod           \* ephemeral dispatch: the ExecutionContext, the pod's EphemeralJobData and the decoded job

pipelineVars == <<payload, executorMode, storageType, jobStatus, stepStatus, sched, run, dispatched>>
scriptVars == <<CommandList, lastCall, executed, execErr>>
logVars == <<buf, lineNumber, stream, written, closed, logBuffer, ret>>
planVars == <<objects, flow>>
credVars == <<rc, InternalSecret, worker>>
installVars == <<cache, inst>>
authVars == <<config, auth>>
registryVars == <<cfg, registry>>
ctxVars == <<db, execCtx>>
tfVars == <<tf>>
cloneVars == <<clone>>
lateVars == <<jwks, store, jobTable, art, rkey, pod>>
moreVars == <<ctxVars, tfVars, cloneVars, lateVars>>
extVars == <<planVars, credVars, installVars, authVars, registryVars, moreVars>>
vars == <<pipelineVars, scriptVars, logVars, extVars>>

\* ------------------------------------------------------------------------
\* Paths (strings as sequences of one-character strings)
\* ------------------------------------------------------------------------
\* the directory os.MkdirTemp returns
TempDir == <<"/", "t">>

\* values of job.Folder
Folders == {<<>>, <<"m">>, <<"m", "/">>}

HasSuffix(s, suf) ==
    /\ Len(suf) <= Len(s)
    /\ SubSeq(s, Len(s) - Len(suf) + 1, Len(s)) = suf

TrimSuffix(s, suf) ==
    IF HasSuffix(s, suf) THEN SubSeq(s, 1, Len(s) - Len(suf)) ELSE s

RECURSIVE Collapse(_, _)
\* copy p to out, dropping a separator that follows a separator
Collapse(p, out) ==
    IF p = <<>> THEN out
    ELSE IF Head(p) = "/" /\ out # <<>> /\ out[Len(out)] = "/"
         THEN Collapse(Tail(p), out)
         ELSE Collapse(Tail(p), Append(out, Head(p)))

\* filepath.Clean on paths without dot elements: repeated separators are
\* collapsed and a trailing separator is dropped (the root "/" stays)
Clean(p) ==
    LET c == Collapse(p, <<>>)
    IN  IF Len(c) > 1 /\ c[Len(c)] = "/" THEN SubSeq(c, 1, Len(c) - 1) ELSE c

\* filepath.Join(dir, elem): empty elements are ignored, the rest joined and cleaned
Join(dir, elem) ==
    IF elem = <<>> THEN Clean(dir) ELSE Clean(dir \o <<"/">> \o elem)

IsPrefix(p, q) == Len(p) <= Len(q) /\ SubSeq(q, 1, Len(p)) = p

\* ------------------------------------------------------------------------
\* git.Service.CloneWorkspace and workspace.Workspace
\* ------------------------------------------------------------------------
\* outcomes of CloneWorkspace: os.MkdirTemp fails, setupSSHEnv fails,
\* git clone fails, or the clone succeeds
CloneOutcomes == {"mkdirFail", "sshFail", "cloneFail", "ok"}

\* CloneWorkspace(..., folder, jobId): the returned directory and error, and
\* whether the directory made by os.MkdirTemp exists when it returns
CloneWorkspace(outcome, folder) ==
    [ finalDir |-> IF outcome # "ok" THEN <<>>
                   ELSE IF folder # <<>> THEN Join(TempDir, folder) ELSE TempDir,
      err      |-> outcome # "ok",
      tmp      |-> outcome # "mkdirFail" ]

\* Workspace.Setup: the value kept in w.WorkingDir for Cleanup
Setup(outcome, folder) ==
    LET c == CloneWorkspace(outcome, folder)
    IN  [ finalDir   |-> c.finalDir,
          err        |-> c.err,
          tmp        |-> c.tmp,
          WorkingDir |-> IF c.err THEN <<>>
                         ELSE IF folder # <<>>
                              THEN TrimSuffix(c.finalDir, <<"/">> \o folder)
                              ELSE c.finalDir ]

\* Workspace.Cleanup: os.RemoveAll(w.WorkingDir) when it is set; the result is
\* whether the temp directory still exists afterwards
Cleanup(WorkingDir, tmp) ==
    IF WorkingDir # <<>> THEN tmp /\ ~IsPrefix(WorkingDir, TempDir) ELSE tmp

\* ------------------------------------------------------------------------
\* terraform.Executor
\* ------------------------------------------------------------------------
Nil == [Success |-> FALSE, ExitCode |-> -1]
ExecutionResult(success, code) == [Success |-> success, ExitCode |-> code]

\* exit codes of the IaC binary for the main command
ExitCodes == {0, 1, 2}

\* executePlan: exit code 2 of plan -detailed-exitcode is not an error
executePlan(exit) ==
    IF exit # 0
    THEN IF exit = 2
         THEN [result |-> ExecutionResult(TRUE, 2), err |-> FALSE]
         ELSE [result |-> ExecutionResult(FALSE, 1), err |-> TRUE]
    ELSE [result |-> ExecutionResult(TRUE, 0), err |-> FALSE]

\* executeApply / executeDestroy: cmd.Run() errors on every non-zero exit
executeApply(exit) == [result |-> ExecutionResult(TRUE, 0), err |-> exit # 0]
executeDestroy(exit) == [result |-> ExecutionResult(TRUE, 0), err |-> exit # 0]

\* Executor.Execute: init, then the command of the job type
TfExecute(type, ignoreError, initOk, exit) ==
    IF ~initOk THEN [result |-> Nil, err |-> TRUE]
    ELSE IF type \notin TerraformTypes THEN [result |-> Nil, err |-> TRUE]
    ELSE LET r == CASE type = "terraformPlan"    -> executePlan(exit)
                    [] type = "terraformApply"   -> executeApply(exit)
                    [] type = "terraformDestroy" -> executeDestroy(exit)
         IN  IF r.err
             THEN IF ignoreError
                  THEN [result |-> ExecutionResult(TRUE, 0), err |-> FALSE]
                  ELSE [result |-> ExecutionResult(FALSE, 1), err |-> TRUE]
             ELSE [result |-> r.result, err |-> FALSE]

\* FinalStatus without the case of a plan with changes
FinalStatus_alwaysCompleted(type, result) ==
    [kind |-> "SetCompleted", success |-> TRUE]

\* executeTerraform, final status: SetPending for a plan with changes
FinalStatus(type, result) ==
    IF type = "terraformPlan" /\ result # Nil /\ result.ExitCode = 2
    THEN [kind |-> "SetPending", success |-> TRUE]
    ELSE [kind |-> "SetCompleted", success |-> TRUE]

\* the status a report writes to the step and job rows
ReportStatus(rep) ==
    IF rep.kind = "SetPending" THEN "pending"
    ELSE IF rep.success THEN "completed" ELSE "failed"

NoReport == [kind |-> "none", success |-> FALSE]
SetCompletedRep(success) == [kind |-> "SetCompleted", success |-> success]

\* ------------------------------------------------------------------------
\* State
\* ------------------------------------------------------------------------
IdleRun ==
    [ pc              |-> "idle",
      step            |-> 0,
      WorkingDir      |-> <<>>,     \* ws.WorkingDir
      tmp             |-> FALSE,    \* the temp directory of this call exists
      cleanupDeferred |-> FALSE,    \* defer ws.Cleanup() was reached
      initOk          |-> TRUE,     \* outcome of the IaC init, once run
      exit            |-> -1,       \* exit code of the IaC command, once run
      result          |-> Nil,      \* *ExecutionResult of tfExecutor.Execute
      err             |-> FALSE,    \* the error ProcessJob returns
      rep             |-> NoReport, \* the terminal report being issued
      terminal        |-> NoReport, \* the last terminal report ProcessJob issued
      nSetRunning     |-> 0,        \* SetRunning calls of this ProcessJob
      nTerminal       |-> 0,        \* SetCompleted/SetPending calls of this ProcessJob
      nRecover        |-> 0,        \* SetCompleted(false) calls of the recover() handler
      panicked        |-> FALSE,    \* a panic is unwinding ProcessJob
      entered         |-> FALSE,    \* ProcessJob was called
      aborted         |-> FALSE,    \* a beforeInit script failed
      exitStatus      |-> -1,       \* exit status of the batch worker process, once it ended
      returned        |-> FALSE ]   \* ProcessJob has returned (or unwound)

\* no script call made, no log written
ScriptIdle ==
    /\ CommandList = <<>>
    /\ lastCall = "none"
    /\ executed = <<>>
    /\ execErr = FALSE

LogIdle ==
    /\ buf = <<>>
    /\ lineNumber = 0
    /\ stream = <<>>
    /\ written = 0
    /\ closed = FALSE
    /\ logBuffer = <<>>
    /\ ret = [p |-> <<>>, n |-> 0, err |-> FALSE]

\* no plan saved, no job chosen
PlanIdle ==
    /\ objects = {}
    /\ flow = [pc |-> "idle"]

Workers == 1..NumWorkers

\* no credentials file, no request received
CredsIdle ==
    /\ rc = "absent"
    /\ InternalSecret = FALSE
    /\ worker = [w \in Workers |-> [pc |-> "idle", read |-> "none"]]

Callers == 1..NumCallers

\* version strings by class of character: "d" a digit, "." a dot, "x" a
\* character that is neither
Versions == { <<"d", ".", "d">>, <<"x">>, <<"d", ".">> }

NoEntry == [dir |-> FALSE, zip |-> "absent", exec |-> "absent"]

IdleCall == [pc |-> "idle", ver |-> <<>>, tofu |-> FALSE, downloads |-> 0,
             execPath |-> <<>>, handed |-> "none", err |-> FALSE]

\* an empty cache directory, no Install call
InstallIdle ==
    /\ cache = [v \in Versions |-> NoEntry]
    /\ inst = [c \in Callers |-> IdleCall]

NoToken == [parts |-> 0]

NoRequest == [public |-> FALSE, header |-> "none", token |-> NoToken]

IdleAuth == [pc |-> "idle", token |-> NoToken, valid |-> FALSE, req |-> NoRequest,
             status |-> 0, reached |-> FALSE]

\* no secret configured, no token, no request
AuthIdle ==
    /\ config = [InternalSecret |-> <<>>, PatSecret |-> <<>>]
    /\ auth = IdleAuth

IdleRegistry == [pc |-> "idle", route |-> "none", header |-> "none",
                 token |-> NoToken, status |-> 0, ran |-> FALSE]

\* the registry is not started
RegistryIdle ==
    /\ cfg = [AuthValidationType |-> "", IssuerUri |-> FALSE]
    /\ registry = IdleRegistry

\* no table read, no context built
CtxIdle ==
    /\ db = [globalvar |-> {}, variable |-> {}]
    /\ execCtx = [pc |-> "idle"]

\* no executeTerraform call
TfIdle == tf = [pc |-> "idle"]

\* no CloneRepository call
CloneIdle == clone = [pc |-> "idle"]

\* no getJWKS call, an empty cache
JwksIdle == jwks = [pc |-> "idle"]

StoreIdle == store = [pc |-> "idle"]

TableIdle == jobTable = [pc |-> "idle"]

ArtIdle == art = [pc |-> "idle"]

KeyIdle == rkey = [pc |-> "idle"]

PodIdle == pod = [pc |-> "idle"]

LateIdle == JwksIdle /\ StoreIdle /\ TableIdle /\ ArtIdle /\ KeyIdle /\ PodIdle

MoreIdle == CtxIdle /\ TfIdle /\ CloneIdle /\ LateIdle

ExtIdle == PlanIdle /\ CredsIdle /\ InstallIdle /\ AuthIdle /\ RegistryIdle /\ MoreIdle

Init ==
    /\ ScriptIdle
    /\ LogIdle
    /\ ExtIdle
    /\ payload \in [Type : JobTypes, IgnoreError : BOOLEAN]
    /\ executorMode \in ExecutorModes
    /\ storageType \in StorageTypes
    /\ jobStatus = [j \in Jobs |-> "pending"]
    /\ stepStatus = [j \in Jobs |-> [s \in Steps |-> "pending"]]
    /\ sched = [pc |-> "idle", rows |-> <<>>, step |-> 0]
    /\ run = [j \in Jobs |-> IdleRun]
    /\ dispatched = [j \in Jobs |-> [s \in Steps |-> 0]]

\* ------------------------------------------------------------------------
\* scheduler.JobScheduler.pollJobs
\* ------------------------------------------------------------------------
RECURSIVE RowsFrom(_, _)
\* the rows of the SELECT from job id i on: status in (pending, queue), by id
RowsFrom(i, js) ==
    IF i > NumJobs THEN <<>>
    ELSE IF js[i] \in {"pending", "queue"}
         THEN <<[id |-> i, status |-> js[i]]>> \o RowsFrom(i + 1, js)
         ELSE RowsFrom(i + 1, js)

\* SELECT ... WHERE j.status IN ('pending','queue') ORDER BY j.id ASC LIMIT 10
SelectJobs(js) ==
    LET all == RowsFrom(1, js)
    IN  SubSeq(all, 1, IF Len(all) < Limit THEN Len(all) ELSE Limit)

\* SELECT id FROM step WHERE job_id = $1 AND status = 'pending'
\* ORDER BY step_number ASC LIMIT 1   (0: no row)
FirstPendingStep(ss) ==
    IF \E s \in Steps : ss[s] = "pending"
    THEN CHOOSE s \in Steps : ss[s] = "pending" /\ \A t \in Steps : ss[t] = "pending" => s <= t
    ELSE 0

\* the process that hosts the scheduler is gone: an inline ProcessJob panicked
\* in a dispatch goroutine, which has no recover
SchedulerDown ==
    executorMode = "INLINE" /\ \E j \in Jobs : run[j].pc = "crashed"

NextRow == [sched EXCEPT !.rows = Tail(sched.rows), !.step = 0,
                         !.pc = IF Len(sched.rows) > 1 THEN "row" ELSE "idle"]

\* a tick: the query of pollJobs; a failed query ends the tick
pollJobsQuery ==
    /\ sched.pc = "idle"
    /\ ~SchedulerDown
    /\ \E ok \in BOOLEAN :
          LET rows == IF ok THEN SelectJobs(jobStatus) ELSE <<>>
          IN  sched' = [sched EXCEPT !.rows = rows, !.step = 0,
                                     !.pc = IF rows # <<>> THEN "row" ELSE "idle"]
    /\ UNCHANGED <<scriptVars, logVars, extVars, payload, executorMode, storageType, jobStatus, stepStatus, run, dispatched>>

\* pollJobsPending without the continue: the row moved to queue goes on to
\* the step query of the same tick
pollJobsPending_noContinue ==
    /\ sched.pc = "row"
    /\ ~SchedulerDown
    /\ Head(sched.rows).status = "pending"
    /\ \E ok \in BOOLEAN :
          jobStatus' = IF ok THEN [jobStatus EXCEPT ![Head(sched.rows).id] = "queue"]
                       ELSE jobStatus
    /\ LET s == FirstPendingStep(stepStatus[Head(sched.rows).id])
       IN  sched' = IF s = 0 THEN NextRow
                    ELSE [sched EXCEPT !.pc = "markStep", !.step = s]
    /\ UNCHANGED <<scriptVars, logVars, extVars, payload, executorMode, storageType, stepStatus, run, dispatched>>

\* a row read as pending: UPDATE job SET status = 'queue', then continue
pollJobsPending ==
    /\ sched.pc = "row"
    /\ ~SchedulerDown
    /\ Head(sched.rows).status = "pending"
    /\ \E ok \in BOOLEAN :
          jobStatus' = IF ok THEN [jobStatus EXCEPT ![Head(sched.rows).id] = "queue"]
                       ELSE jobStatus
    /\ sched' = NextRow
    /\ UNCHANGED <<scriptVars, logVars, extVars, payload, executorMode, storageType, stepStatus, run, dispatched>>

\* a row read as queue: find the first pending step; none (or an error): continue
pollJobsFindStep ==
    /\ sched.pc = "row"
    /\ ~SchedulerDown
    /\ Head(sched.rows).status # "pending"
    /\ \E ok \in BOOLEAN :
          LET s == IF ok THEN FirstPendingStep(stepStatus[Head(sched.rows).id]) ELSE 0
          IN  sched' = IF s = 0 THEN NextRow
                       ELSE [sched EXCEPT !.pc = "markStep", !.step = s]
    /\ UNCHANGED <<scriptVars, logVars, extVars, payload, executorMode, storageType, jobStatus, stepStatus, run, dispatched>>

\* UPDATE step SET status = 'running'; on error: continue
pollJobsMarkStep ==
    /\ sched.pc = "markStep"
    /\ ~SchedulerDown
    /\ \E ok \in BOOLEAN :
          IF ok
          THEN /\ stepStatus' = [stepStatus EXCEPT ![Head(sched.rows).id][sched.step] = "running"]
               /\ sched' = [sched EXCEPT !.pc = "markJob"]
          ELSE /\ stepStatus' = stepStatus
               /\ sched' = NextRow
    /\ UNCHANGED <<scriptVars, logVars, extVars, payload, executorMode, storageType, jobStatus, run, dispatched>>

\* UPDATE job SET status = 'running'; on error: continue; else start the
\* dispatch goroutine for (job, step). The record run[j] holds one goroutine
\* per job: a job is dispatched again once the goroutine of its previous
\* dispatch has ended (after its terminal report that goroutine writes nothing)
pollJobsMarkJob ==
    /\ sched.pc = "markJob"
    /\ ~SchedulerDown
    /\ LET j == Head(sched.rows).id
       IN  \E ok \in BOOLEAN :
             IF ok
             THEN /\ run[j].pc \in {"idle", "done", "crashed"}
                  /\ jobStatus' = [jobStatus EXCEPT ![j] = "running"]
                  /\ run' = [run EXCEPT ![j] = [IdleRun EXCEPT !.pc = "execute", !.step = sched.step]]
                  /\ dispatched' = [dispatched EXCEPT ![j][sched.step] =
                                        IF @ < MaxDispatch THEN @ + 1 ELSE @]
             ELSE UNCHANGED <<jobStatus, run, dispatched>>
    /\ sched' = NextRow
    /\ UNCHANGED <<scriptVars, logVars, extVars, payload, executorMode, storageType, stepStatus>>

\* ------------------------------------------------------------------------
\* The dispatch goroutine of pollJobs and the executor backend
\* ------------------------------------------------------------------------
SchedFrame == <<scriptVars, logVars, extVars, payload, executorMode, storageType, sched, dispatched>>

\* s.executor.Execute(ctx, ec): the inline backend calls ProcessJob and returns
\* its error; the other backends hand the job to an online executor or a batch
\* worker and return, or fail to
BackendExecute(j) ==
    /\ run[j].pc = "execute"
    /\ IF executorMode = "INLINE"
       THEN run' = [run EXCEPT ![j].pc = "SetRunning.step", ![j].entered = TRUE]
       ELSE \E accepted \in BOOLEAN :
               run' = [run EXCEPT ![j].pc = IF accepted THEN "SetRunning.step"
                                            ELSE "dispatchFail.step",
                                  ![j].entered = accepted]
    /\ UNCHANGED <<jobStatus, stepStatus>>
    /\ UNCHANGED SchedFrame

\* Execute returned an error: UPDATE step SET status = 'failed' (result ignored)
dispatchFailStep(j) ==
    /\ run[j].pc = "dispatchFail.step"
    /\ ~SchedulerDown
    /\ \E ok \in BOOLEAN :
          stepStatus' = IF ok THEN [stepStatus EXCEPT ![j][run[j].step] = "failed"]
                        ELSE stepStatus
    /\ run' = [run EXCEPT ![j].pc = "dispatchFail.job"]
    /\ UNCHANGED jobStatus
    /\ UNCHANGED SchedFrame

\* dispatchFailJob putting the job back on the queue instead of failing it
dispatchFailJob_requeue(j) ==
    /\ run[j].pc = "dispatchFail.job"
    /\ ~SchedulerDown
    /\ \E ok \in BOOLEAN :
          jobStatus' = IF ok THEN [jobStatus EXCEPT ![j] = "queue"] ELSE jobStatus
    /\ run' = [run EXCEPT ![j].pc = "done"]
    /\ UNCHANGED stepStatus
    /\ UNCHANGED SchedFrame

\* ... then UPDATE job SET status = 'failed' (result ignored)
dispatchFailJob(j) ==
    /\ run[j].pc = "dispatchFail.job"
    /\ ~SchedulerDown
    /\ \E ok \in BOOLEAN :
          jobStatus' = IF ok THEN [jobStatus EXCEPT ![j] = "failed"] ELSE jobStatus
    /\ run' = [run EXCEPT ![j].pc = "done"]
    /\ UNCHANGED stepStatus
    /\ UNCHANGED SchedFrame

\* ------------------------------------------------------------------------
\* status.Service: the API calls of SetRunning, SetCompleted, SetPending
\* ------------------------------------------------------------------------
\* SetRunning: UpdateStepStatus(running); a failure is logged
SetRunningStep(j) ==
    /\ run[j].pc = "SetRunning.step"
    /\ \E ok \in BOOLEAN :
          stepStatus' = IF ok THEN [stepStatus EXCEPT ![j][run[j].step] = "running"]
                        ELSE stepStatus
    /\ run' = [run EXCEPT ![j].pc = "SetRunning.job", ![j].nSetRunning = @ + 1]
    /\ UNCHANGED jobStatus
    /\ UNCHANGED SchedFrame

\* SetRunning: UpdateJobStatus(running)
SetRunningJob(j) ==
    /\ run[j].pc = "SetRunning.job"
    /\ \E ok \in BOOLEAN :
          jobStatus' = IF ok THEN [jobStatus EXCEPT ![j] = "running"] ELSE jobStatus
    /\ run' = [run EXCEPT ![j].pc = "Setup"]
    /\ UNCHANGED stepStatus
    /\ UNCHANGED SchedFrame

\* SetCompleted / SetPending: UpdateStepStatus; on failure the call returns
\* without touching the job
ReportStep(j) ==
    /\ run[j].pc = "report.step"
    /\ \E ok \in BOOLEAN :
          IF ok
          THEN /\ stepStatus' = [stepStatus EXCEPT ![j][run[j].step] = ReportStatus(run[j].rep)]
               /\ run' = [run EXCEPT ![j].pc = "report.job",
                                     ![j].nTerminal = @ + 1,
                                     ![j].terminal = run[j].rep]
          ELSE /\ stepStatus' = stepStatus
               /\ run' = [run EXCEPT ![j].pc = "defers",
                                     ![j].nTerminal = @ + 1,
                                     ![j].terminal = run[j].rep]
    /\ UNCHANGED jobStatus
    /\ UNCHANGED SchedFrame

\* SetCompleted / SetPending: UpdateJobStatus
ReportJob(j) ==
    /\ run[j].pc = "report.job"
    /\ \E ok \in BOOLEAN :
          jobStatus' = IF ok THEN [jobStatus EXCEPT ![j] = ReportStatus(run[j].rep)]
                       ELSE jobStatus
    /\ run' = [run EXCEPT ![j].pc = "defers"]
    /\ UNCHANGED stepStatus
    /\ UNCHANGED SchedFrame

\* ------------------------------------------------------------------------
\* core.JobProcessor.ProcessJob and executeTerraform
\* ------------------------------------------------------------------------
DbFrame == <<jobStatus, stepStatus>>

\* a step of executeTerraform that returns its error without a status report
FailOrGo(j, ok, next) ==
    run' = [run EXCEPT ![j].pc = IF ok THEN next ELSE "defers",
                       ![j].err = ~ok]

\* 3. ws.Setup(); on error SetCompleted(false) and return; else defer ws.Cleanup()
WorkspaceSetup(j) ==
    /\ run[j].pc = "Setup"
    /\ \E outcome \in CloneOutcomes, folder \in Folders :
          LET r == Setup(outcome, folder)
          IN  run' = IF r.err
                     THEN [run EXCEPT ![j].pc = "report.step",
                                      ![j].tmp = r.tmp,
                                      ![j].rep = SetCompletedRep(FALSE),
                                      ![j].err = TRUE]
                     ELSE [run EXCEPT ![j].pc = "DownloadState",
                                      ![j].tmp = r.tmp,
                                      ![j].WorkingDir = r.WorkingDir,
                                      ![j].cleanupDeferred = TRUE]
    /\ UNCHANGED DbFrame
    /\ UNCHANGED SchedFrame

\* 3b, 4. commit id, download of the prior state (every outcome goes on)
DownloadState(j) ==
    /\ run[j].pc = "DownloadState"
    /\ run' = [run EXCEPT ![j].pc = IF payload.Type = "terraformApply"
                                    THEN "downloadPlanForApply" ELSE "switch"]
    /\ UNCHANGED DbFrame
    /\ UNCHANGED SchedFrame

\* 4b. downloadPlanForApply: NopStorageService.DownloadFile returns (nil, nil),
\* and defer reader.Close() on the nil reader panics
downloadPlanForApply(j) ==
    /\ run[j].pc = "downloadPlanForApply"
    /\ run' = IF storageType = "NOP"
              THEN [run EXCEPT ![j].pc = "defers", ![j].panicked = TRUE]
              ELSE [run EXCEPT ![j].pc = "switch"]
    /\ UNCHANGED DbFrame
    /\ UNCHANGED SchedFrame

\* 5. switch job.Type
Switch(j) ==
    /\ run[j].pc = "switch"
    /\ run' = IF payload.Type \in TerraformTypes
              THEN [run EXCEPT ![j].pc = "Install"]
              ELSE IF payload.Type \in ScriptTypes
              THEN [run EXCEPT ![j].pc = "scriptExecute"]
              ELSE [run EXCEPT ![j].pc = "report.step",
                               ![j].rep = SetCompletedRep(FALSE),
                               ![j].err = TRUE]
    /\ UNCHANGED DbFrame
    /\ UNCHANGED SchedFrame

\* case customScripts, approval: scriptExecutor.Execute(), then SetCompleted
ScriptExecute(j) ==
    /\ run[j].pc = "scriptExecute"
    /\ \E ok \in BOOLEAN :
          run' = [run EXCEPT ![j].pc = "report.step",
                             ![j].rep = SetCompletedRep(ok),
                             ![j].err = ~ok]
    /\ UNCHANGED DbFrame
    /\ UNCHANGED SchedFrame

\* executeTerraform: p.VersionManager.Install
Install(j) ==
    /\ run[j].pc = "Install"
    /\ \E ok \in BOOLEAN : FailOrGo(j, ok, "generateBackendOverride")
    /\ UNCHANGED DbFrame
    /\ UNCHANGED SchedFrame

\* executeTerraform: p.generateBackendOverride
generateBackendOverride(j) ==
    /\ run[j].pc = "generateBackendOverride"
    /\ \E ok \in BOOLEAN : FailOrGo(j, ok, "generateTerraformCredentials")
    /\ UNCHANGED DbFrame
    /\ UNCHANGED SchedFrame

\* executeTerraform: p.generateTerraformCredentials
generateTerraformCredentials(j) ==
    /\ run[j].pc = "generateTerraformCredentials"
    /\ \E ok \in BOOLEAN : FailOrGo(j, ok, "beforeInit")
    /\ UNCHANGED DbFrame
    /\ UNCHANGED SchedFrame

\* executeTerraform: scriptExec.ExecutePhase("beforeInit"); on error return
\* "beforeInit scripts failed" without a status report
BeforeInit(j) ==
    /\ run[j].pc = "beforeInit"
    /\ \E ok \in BOOLEAN :
          run' = [run EXCEPT ![j].pc = IF ok THEN "tfExecute" ELSE "defers",
                             ![j].err = ~ok,
                             ![j].aborted = ~ok]
    /\ UNCHANGED DbFrame
    /\ UNCHANGED SchedFrame

\* executeTerraform: tfExecutor.Execute()
TerraformExecute(j) ==
    /\ run[j].pc = "tfExecute"
    /\ \E initOk \in BOOLEAN, exit \in ExitCodes :
          /\ (~initOk => exit = 0)
          /\ LET r == TfExecute(payload.Type, payload.IgnoreError, initOk, exit)
             IN  run' = [run EXCEPT ![j].pc = IF r.err THEN "onFailure" ELSE "after",
                                    ![j].initOk = initOk,
                                    ![j].exit = IF initOk THEN exit ELSE -1,
                                    ![j].result = r.result,
                                    ![j].err = r.err]
    /\ UNCHANGED DbFrame
    /\ UNCHANGED SchedFrame

\* executeTerraform, err != nil: ExecutePhase("onFailure") (result ignored),
\* SetCompleted(false), return err
OnFailure(j) ==
    /\ run[j].pc = "onFailure"
    /\ run' = [run EXCEPT ![j].pc = "report.step", ![j].rep = SetCompletedRep(FALSE)]
    /\ UNCHANGED DbFrame
    /\ UNCHANGED SchedFrame

\* executeTerraform: ExecutePhase("after") (a failure is logged), then
\* uploadStateAndOutput
After(j) ==
    /\ run[j].pc = "after"
    /\ run' = [run EXCEPT ![j].pc = "finalStatus"]
    /\ UNCHANGED DbFrame
    /\ UNCHANGED SchedFrame

\* executeTerraform: set final status based on result
SetFinalStatus(j) ==
    /\ run[j].pc = "finalStatus"
    /\ run' = [run EXCEPT ![j].pc = "report.step",
                          ![j].rep = FinalStatus(payload.Type, run[j].result)]
    /\ UNCHANGED DbFrame
    /\ UNCHANGED SchedFrame

\* the deferred calls of ProcessJob, run on return and on a panic alike:
\* ws.Cleanup() if it was deferred, streamer.Close()
Defers(j) ==
    /\ run[j].pc = "defers"
    /\ run' = [run EXCEPT ![j].pc = "return",
                          ![j].tmp = IF run[j].cleanupDeferred
                                     THEN Cleanup(run[j].WorkingDir, run[j].tmp)
                                     ELSE run[j].tmp]
    /\ UNCHANGED DbFrame
    /\ UNCHANGED SchedFrame

\* ProcessJob is left for pc; a batch worker process ends with exit status st
Leave(j, pc, st) ==
    [run EXCEPT ![j].pc = pc, ![j].returned = TRUE,
                ![j].exitStatus = IF executorMode = "BATCH" THEN st ELSE -1]

\* Return with an online job goroutine that has no recover()
Return_noRecover(j) ==
    /\ run[j].pc = "return"
    /\ run' = IF run[j].panicked
              THEN Leave(j, "crashed", 2)
              ELSE IF executorMode = "INLINE" /\ run[j].err
                   THEN Leave(j, "dispatchFail.step", 0)
                   ELSE Leave(j, "done", 0)
    /\ UNCHANGED DbFrame
    /\ UNCHANGED SchedFrame

\* Return with an online goroutine whose deferred function reports the failure
\* without looking at recover()
Return_recoverAlways(j) ==
    /\ run[j].pc = "return"
    /\ run' = IF executorMode = "ONLINE"
              THEN Leave(j, "recover.step", 0)
              ELSE IF run[j].panicked
                   THEN Leave(j, "crashed", 2)
                   ELSE IF executorMode = "INLINE" /\ run[j].err
                        THEN Leave(j, "dispatchFail.step", 0)
                        ELSE Leave(j, "done", 0)
    /\ UNCHANGED DbFrame
    /\ UNCHANGED SchedFrame

\* Return with a batch AdjustAndExecute that ends the process with log.Fatalf
\* when ProcessJob returns an error
Return_fatalf(j) ==
    /\ run[j].pc = "return"
    /\ run' = IF run[j].panicked
              THEN IF executorMode = "ONLINE"
                   THEN Leave(j, "recover.step", 0)
                   ELSE Leave(j, "crashed", 2)
              ELSE IF executorMode = "INLINE" /\ run[j].err
                   THEN Leave(j, "dispatchFail.step", 0)
                   ELSE Leave(j, "done", IF run[j].err THEN 1 ELSE 0)
    /\ UNCHANGED DbFrame
    /\ UNCHANGED SchedFrame

\* ProcessJob is left. A panic is recovered by the job goroutine of the online
\* server only; the inline backend hands the error to the dispatch goroutine;
\* batch.AdjustAndExecute logs the error and returns, Start returns and the
\* worker process ends with status 0 (an unrecovered panic ends it with 2)
Return(j) ==
    /\ run[j].pc = "return"
    /\ run' = IF run[j].panicked
              THEN IF executorMode = "ONLINE"
                   THEN Leave(j, "recover.step", 0)
                   ELSE Leave(j, "crashed", 2)
              ELSE IF executorMode = "INLINE" /\ run[j].err
                   THEN Leave(j, "dispatchFail.step", 0)
                   ELSE Leave(j, "done", 0)
    /\ UNCHANGED DbFrame
    /\ UNCHANGED SchedFrame

\* online.StartServer, recover(): processor.Status.SetCompleted(&job, false, errMsg)
RecoverStep(j) ==
    /\ run[j].pc = "recover.step"
    /\ \E ok \in BOOLEAN :
          IF ok
          THEN /\ stepStatus' = [stepStatus EXCEPT ![j][run[j].step] = "failed"]
               /\ run' = [run EXCEPT ![j].pc = "recover.job", ![j].nRecover = @ + 1]
          ELSE /\ stepStatus' = stepStatus
               /\ run' = [run EXCEPT ![j].pc = "done", ![j].nRecover = @ + 1]
    /\ UNCHANGED jobStatus
    /\ UNCHANGED SchedFrame

RecoverJob(j) ==
    /\ run[j].pc = "recover.job"
    /\ \E ok \in BOOLEAN :
          jobStatus' = IF ok THEN [jobStatus EXCEPT ![j] = "failed"] ELSE jobStatus
    /\ run' = [run EXCEPT ![j].pc = "done"]
    /\ UNCHANGED stepStatus
    /\ UNCHANGED SchedFrame

\* ------------------------------------------------------------------------
\* Specification
\* ------------------------------------------------------------------------
Next ==
    \/ pollJobsQuery
    \/ pollJobsPending
    \/ pollJobsFindStep
    \/ pollJobsMarkStep
    \/ pollJobsMarkJob
    \/ \E j \in Jobs : BackendExecute(j)
    \/ \E j \in Jobs : dispatchFailStep(j)
    \/ \E j \in Jobs : dispatchFailJob(j)
    \/ \E j \in Jobs : SetRunningStep(j)
    \/ \E j \in Jobs : SetRunningJob(j)
    \/ \E j \in Jobs : WorkspaceSetup(j)
    \/ \E j \in Jobs : DownloadState(j)
    \/ \E j \in Jobs : downloadPlanForApply(j)
    \/ \E j \in Jobs : Switch(j)
    \/ \E j \in Jobs : ScriptExecute(j)
    \/ \E j \in Jobs : Install(j)
    \/ \E j \in Jobs : generateBackendOverride(j)
    \/ \E j \in Jobs : generateTerraformCredentials(j)
    \/ \E j \in Jobs : BeforeInit(j)
    \/ \E j \in Jobs : TerraformExecute(j)
    \/ \E j \in Jobs : OnFailure(j)
    \/ \E j \in Jobs : After(j)
    \/ \E j \in Jobs : SetFinalStatus(j)
    \/ \E j \in Jobs : ReportStep(j)
    \/ \E j \in Jobs : ReportJob(j)
    \/ \E j \in Jobs : Defers(j)
    \/ \E j \in Jobs : Return(j)
    \/ \E j \in Jobs : RecoverStep(j)
    \/ \E j \in Jobs : RecoverJob(j)

Spec == Init /\ [][Next]_vars

\* The pipeline with its goroutines scheduled fairly: the ticker of Start
\* keeps calling pollJobs, and every started goroutine (the dispatch goroutine,
\* the ProcessJob it runs) takes its next step
ProcessSteps(j) ==
    \/ BackendExecute(j)
    \/ SetRunningStep(j) \/ SetRunningJob(j)
    \/ WorkspaceSetup(j) \/ DownloadState(j) \/ downloadPlanForApply(j)
    \/ Switch(j) \/ ScriptExecute(j)
    \/ Install(j) \/ generateBackendOverride(j) \/ generateTerraformCredentials(j)
    \/ BeforeInit(j) \/ TerraformExecute(j) \/ OnFailure(j) \/ After(j)
    \/ SetFinalStatus(j) \/ ReportStep(j) \/ ReportJob(j)
    \/ Defers(j) \/ Return(j) \/ RecoverStep(j) \/ RecoverJob(j)

Fairness ==
    /\ WF_vars(pollJobsQuery \/ pollJobsPending \/ pollJobsFindStep
                  \/ pollJobsMarkStep \/ pollJobsMarkJob)
    /\ \A j \in Jobs : WF_vars(ProcessSteps(j))
    /\ \A j \in Jobs : WF_vars(dispatchFailStep(j))
    /\ \A j \in Jobs : WF_vars(dispatchFailJob(j))

SpecFair == Init /\ [][Next]_vars /\ Fairness

\* ------------------------------------------------------------------------
\* sort.Slice as script.Executor calls it (Go 1.24: pdqsort_func)
\* ------------------------------------------------------------------------
\* Slices are sequences; positions are counted from 0 as the Go code counts
\* them. The less function of both calls: commands[i].Priority < commands[j].Priority
Less(data, i, j) == data[i + 1].Priority < data[j + 1].Priority

Swap(data, i, j) == [data EXCEPT ![i + 1] = data[j + 1], ![j + 1] = data[i + 1]]

\* slices of at most maxInsertion elements are sorted by insertion
maxInsertion == 12

RECURSIVE insertionShift(_, _, _)
\* for j := i; j > a && Less(j, j-1); j-- { Swap(j, j-1) }
insertionShift(data, j, a) ==
    IF j > a /\ Less(data, j, j - 1)
    THEN insertionShift(Swap(data, j, j - 1), j - 1, a)
    ELSE data

RECURSIVE insertionFrom(_, _, _, _)
insertionFrom(data, i, a, b) ==
    IF i < b THEN insertionFrom(insertionShift(data, i, a), i + 1, a, b) ELSE data

insertionSort(data, a, b) == insertionFrom(data, a + 1, a, b)

\* order2: the two positions in order of their elements, and the swap count
order2(data, a, b, swaps) ==
    IF Less(data, b, a) THEN <<b, a, swaps + 1>> ELSE <<a, b, swaps>>

\* median of the elements at a, b, c
median(data, a, b, c) ==
    LET o1 == order2(data, a, b, 0)
        o2 == order2(data, o1[2], c, o1[3])
        o3 == order2(data, o1[1], o2[1], o2[3])
    IN  [pivot |-> o3[2], swaps |-> o3[3]]

\* choosePivot for fewer than 50 elements (no ninther; at most 3 swaps, so the
\* hint is never decreasingHint)
choosePivot(data, a, b) ==
    LET l == b - a
        i == a + (l \div 4) * 1
        j == a + (l \div 4) * 2
        k == a + (l \div 4) * 3
    IN  IF l >= 8
        THEN LET m == median(data, i, j, k)
             IN  [pivot |-> m.pivot,
                  hint  |-> IF m.swaps = 0 THEN "increasingHint" ELSE "unknownHint"]
        ELSE [pivot |-> j, hint |-> "increasingHint"]

\* partialInsertionSort for fewer than 50 elements: true if the range is
\* already in order, and nothing is moved
partialInsertionSort(data, a, b) ==
    \A i \in (a + 1)..(b - 1) : ~Less(data, i, i - 1)

RECURSIVE scanUp(_, _, _, _)
\* for i <= j && Less(i, a) { i++ }
scanUp(data, i, j, a) ==
    IF i <= j /\ Less(data, i, a) THEN scanUp(data, i + 1, j, a) ELSE i

RECURSIVE scanDown(_, _, _, _)
\* for i <= j && !Less(j, a) { j-- }
scanDown(data, i, j, a) ==
    IF i <= j /\ ~Less(data, j, a) THEN scanDown(data, i, j - 1, a) ELSE j

RECURSIVE partitionLoop(_, _, _, _)
partitionLoop(data, i, j, a) ==
    LET i2 == scanUp(data, i, j, a)
        j2 == scanDown(data, i2, j, a)
    IN  IF i2 > j2
        THEN [data |-> Swap(data, j2, a), mid |-> j2]
        ELSE partitionLoop(Swap(data, i2, j2), i2 + 1, j2 - 1, a)

\* partition: elements < pivot to the left, >= pivot to the right
partition(data, a, b, pivot) ==
    LET d0 == Swap(data, a, pivot)
        i1 == scanUp(d0, a + 1, b - 1, a)
        j1 == scanDown(d0, i1, b - 1, a)
    IN  IF i1 > j1
        THEN [data |-> Swap(d0, j1, a), mid |-> j1]
        ELSE partitionLoop(Swap(d0, i1, j1), i1 + 1, j1 - 1, a)

\* pdqsort_func(data, 0, n, limit) for n <= maxInsertion + 1: up to
\* maxInsertion elements insertion sort; one more, and one round of pivot and
\* partition leaves two sides of at most maxInsertion elements
pdqsort(data) ==
    LET n == Len(data)
    IN  IF n <= maxInsertion THEN insertionSort(data, 0, n)
        ELSE LET c == choosePivot(data, 0, n)
             IN  IF c.hint = "increasingHint" /\ partialInsertionSort(data, 0, n)
                 THEN data
                 ELSE LET p == partition(data, 0, n, c.pivot)
                      IN  insertionSort(insertionSort(p.data, 0, p.mid), p.mid + 1, n)

\* ------------------------------------------------------------------------
\* script.Executor
\* ------------------------------------------------------------------------
Phases == {"beforeInit", "before", "after", "onFailure"}

\* values of Command.Priority
Priorities == {1, 2}

\* the phase flags of a command
FlagSets ==
    { [BeforeInit |-> TRUE,  Before |-> TRUE,  After |-> FALSE, OnFailure |-> FALSE],
      [BeforeInit |-> FALSE, Before |-> TRUE,  After |-> FALSE, OnFailure |-> FALSE],
      [BeforeInit |-> FALSE, Before |-> FALSE, After |-> TRUE,  OnFailure |-> TRUE] }

\* model.Command. Script stands for the script text: it is the command's
\* position in CommandList, and ok says whether sh -c Script exits with 0
Command(i, priority, flags, ok) ==
    [ Script |-> i, Priority |-> priority, ok |-> ok,
      BeforeInit |-> flags.BeforeInit, Before |-> flags.Before,
      After |-> flags.After, OnFailure |-> flags.OnFailure ]

\* every command list of up to MaxCmds commands
ShortLists ==
    UNION { { [i \in 1..n |-> Command(i, pr[i], fl[i], ok[i])] :
                pr \in [1..n -> Priorities], fl \in [1..n -> FlagSets],
                ok \in [1..n -> BOOLEAN] } : n \in 0..MaxCmds }

\* command lists one longer than maxInsertion, all of one phase: one command
\* of priority 2 among commands of priority 1, and at most one failing script
LongLen == maxInsertion + 1
LongLists ==
    { [i \in 1..LongLen |->
          Command(i, IF i = hi THEN 2 ELSE 1,
                  [BeforeInit |-> TRUE, Before |-> FALSE, After |-> FALSE, OnFailure |-> FALSE],
                  i # bad)] :
      hi \in 1..LongLen, bad \in 0..LongLen }

RECURSIVE filterFrom(_, _, _)
filterFrom(commands, i, phase) ==
    IF i > Len(commands) THEN <<>>
    ELSE LET cmd == commands[i]
             keep == CASE phase = "beforeInit" -> cmd.BeforeInit
                       [] phase = "before"     -> cmd.Before /\ ~cmd.BeforeInit
                       [] phase = "after"      -> cmd.After
                       [] phase = "onFailure"  -> cmd.OnFailure
                       [] OTHER                -> FALSE
         IN  (IF keep THEN <<cmd>> ELSE <<>>) \o filterFrom(commands, i + 1, phase)

filterByPhase(commands, phase) == filterFrom(commands, 1, phase)

RECURSIVE runFrom(_, _, _)
\* the loop over the sorted commands: cmd.Run() of each, return on the first error
runFrom(commands, i, ran) ==
    IF i > Len(commands) THEN [executed |-> ran, err |-> FALSE]
    ELSE IF ~commands[i].ok
         THEN [executed |-> Append(ran, commands[i].Script), err |-> TRUE]
         ELSE runFrom(commands, i + 1, Append(ran, commands[i].Script))

\* runCommands going on after a failing script and reporting the error at the end
runCommands_keepGoing(commands) ==
    [ executed |-> [i \in 1..Len(commands) |-> commands[i].Script],
      err      |-> \E i \in 1..Len(commands) : ~commands[i].ok ]

runCommands(commands) == runFrom(commands, 1, <<>>)

ScriptFrame == <<pipelineVars, logVars, extVars, CommandList>>

\* Executor.Execute
Execute ==
    /\ LET r == runCommands(pdqsort(CommandList))
       IN  /\ executed' = r.executed
           /\ execErr' = r.err
    /\ lastCall' = "Execute"
    /\ UNCHANGED ScriptFrame

\* ExecutePhase: filter by phase, nothing to do for no command, sort by
\* priority, run until the first failure
runPhase(list, phase) ==
    LET commands == filterByPhase(list, phase)
    IN  IF Len(commands) = 0 THEN [executed |-> <<>>, err |-> FALSE]
        ELSE runCommands(pdqsort(commands))

\* Executor.ExecutePhase(phase)
ExecutePhase(phase) ==
    /\ LET r == runPhase(CommandList, phase)
       IN  /\ executed' = r.executed
           /\ execErr' = r.err
    /\ lastCall' = phase
    /\ UNCHANGED ScriptFrame

PipelineIdle ==
    /\ payload = [Type |-> "customScripts", IgnoreError |-> FALSE]
    /\ executorMode = "INLINE"
    /\ storageType = "NOP"
    /\ jobStatus = [j \in Jobs |-> "pending"]
    /\ stepStatus = [j \in Jobs |-> [s \in Steps |-> "pending"]]
    /\ sched = [pc |-> "idle", rows |-> <<>>, step |-> 0]
    /\ run = [j \in Jobs |-> IdleRun]
    /\ dispatched = [j \in Jobs |-> [s \in Steps |-> 0]]

InitScript ==
    /\ PipelineIdle
    /\ LogIdle
    /\ ExtIdle
    /\ CommandList \in ShortLists \cup LongLists
    /\ lastCall = "none"
    /\ executed = <<>>
    /\ execErr = FALSE

NextScript ==
    \/ Execute
    \/ \E phase \in Phases : ExecutePhase(phase)

SpecScript == InitScript /\ [][NextScript]_vars

\* ------------------------------------------------------------------------
\* logs.RedisStreamer
\* ------------------------------------------------------------------------
\* the bytes of a block: a newline and one other byte
Newline == "\n"
Bytes == {"a", Newline}

\* the blocks p handed to Write
Blocks == UNION { [1..n -> Bytes] : n \in 1..MaxBlock }

\* atomic.Int32.Add(1): wraps from the largest int32 to the smallest
Add32(n) == IF n = 2147483647 THEN -2147483647 - 1 ELSE n + 1

\* strings.IndexByte(content, '\n'), counted from 1; 0 when there is none
IndexByte(content) ==
    IF \E i \in 1..Len(content) : content[i] = Newline
    THEN CHOOSE i \in 1..Len(content) :
            content[i] = Newline /\ \A k \in 1..(i - 1) : content[k] # Newline
    ELSE 0

\* a log entry of the stream, and the sentinel entry
LineEntry(lineNum, output) == [done |-> FALSE, lineNumber |-> lineNum, output |-> output]
DoneEntry == [done |-> TRUE, lineNumber |-> 0, output |-> <<>>]

\* XADD: the entry is appended unless the call fails
XAdd(strm, entry, fails) == IF fails THEN strm ELSE Append(strm, entry)

RECURSIVE writeLoop(_, _, _, _, _)
\* the loop of Write: each complete line of the buffer takes the next line
\* number and is sent; fails[k] says whether the k-th XADD of the call fails
writeLoop(content, num, strm, fails, k) ==
    LET idx == IndexByte(content)
    IN  IF idx = 0 THEN [buf |-> content, lineNumber |-> num, stream |-> strm]
        ELSE LET line == SubSeq(content, 1, idx - 1)
                 remaining == SubSeq(content, idx + 1, Len(content))
                 lineNum == Add32(num)
             IN  writeLoop(remaining, lineNum,
                           XAdd(strm, LineEntry(lineNum, line), fails[k]), fails, k + 1)

LogFrame == <<pipelineVars, scriptVars, extVars>>

\* RedisStreamer.Write(p) that returns the failure of an XADD
RedisWrite_xaddError(p, fails) ==
    LET r == writeLoop(buf \o p, lineNumber, stream, fails, 1)
        failed == \E k \in 1..Len(p) :
                     fails[k] /\ k <= Cardinality({i \in 1..Len(p) : p[i] = Newline})
    IN  [buf |-> r.buf, lineNumber |-> r.lineNumber, stream |-> r.stream,
         n |-> Len(p), err |-> failed]

\* RedisStreamer.Write(p): a failed XADD is logged; the call returns len(p), nil
RedisWrite(p, fails) ==
    LET r == writeLoop(buf \o p, lineNumber, stream, fails, 1)
    IN  [buf |-> r.buf, lineNumber |-> r.lineNumber, stream |-> r.stream,
         n |-> Len(p), err |-> FALSE]

\* bytes.Buffer.Write(p) appends p and returns len(p), nil
BufferWrite(b, p) == [buffer |-> b \o p, n |-> Len(p), err |-> FALSE]

\* io.MultiWriter over the streamer and &logBuffer: each writer in turn, and
\* the first error or short write ends the call
MultiWrite(p, fails) ==
    LET r == RedisWrite(p, fails)
        b == BufferWrite(logBuffer, p)
    IN  IF r.err THEN [redis |-> r, buffer |-> logBuffer, n |-> r.n, err |-> TRUE]
        ELSE IF r.n # Len(p) THEN [redis |-> r, buffer |-> logBuffer, n |-> r.n, err |-> TRUE]
        ELSE IF b.err THEN [redis |-> r, buffer |-> b.buffer, n |-> b.n, err |-> TRUE]
        ELSE IF b.n # Len(p) THEN [redis |-> r, buffer |-> b.buffer, n |-> b.n, err |-> TRUE]
        ELSE [redis |-> r, buffer |-> b.buffer, n |-> Len(p), err |-> FALSE]

\* MultiStreamer.Write(p) on the job's log sink with Redis enabled. ProcessJob
\* closes the streamer last, by defer
Write(p) ==
    /\ ~closed
    /\ written + Len(p) <= MaxBytes
    /\ \E fails \in [1..Len(p) -> BOOLEAN] :
          LET m == MultiWrite(p, fails)
          IN  /\ buf' = m.redis.buf
              /\ lineNumber' = m.redis.lineNumber
              /\ stream' = m.redis.stream
              /\ logBuffer' = m.buffer
              /\ ret' = [p |-> p, n |-> m.n, err |-> m.err]
    /\ written' = written + Len(p)
    /\ UNCHANGED closed
    /\ UNCHANGED LogFrame

\* Close sending the sentinel before the flush of the partial line
Close_sentinelFirst ==
    /\ ~closed
    /\ \E failFlush \in BOOLEAN, failDone \in BOOLEAN :
          LET lineNum == Add32(lineNumber)
              done == XAdd(stream, DoneEntry, failDone)
          IN  /\ (Len(buf) = 0 => ~failFlush)
              /\ lineNumber' = IF Len(buf) > 0 THEN lineNum ELSE lineNumber
              /\ stream' = IF Len(buf) > 0
                           THEN XAdd(done, LineEntry(lineNum, buf), failFlush)
                           ELSE done
    /\ buf' = <<>>
    /\ closed' = TRUE
    /\ UNCHANGED <<written, logBuffer, ret>>
    /\ UNCHANGED LogFrame

\* RedisStreamer.Close(): flush of the partial line, then the sentinel
Close ==
    /\ ~closed
    /\ \E failFlush \in BOOLEAN, failDone \in BOOLEAN :
          LET lineNum == Add32(lineNumber)
              flushed == IF Len(buf) > 0
                         THEN XAdd(stream, LineEntry(lineNum, buf), failFlush)
                         ELSE stream
          IN  /\ (Len(buf) = 0 => ~failFlush)
              /\ lineNumber' = IF Len(buf) > 0 THEN lineNum ELSE lineNumber
              /\ stream' = XAdd(flushed, DoneEntry, failDone)
    /\ buf' = <<>>
    /\ closed' = TRUE
    /\ UNCHANGED <<written, logBuffer, ret>>
    /\ UNCHANGED LogFrame

InitLog ==
    /\ PipelineIdle
    /\ ScriptIdle
    /\ LogIdle
    /\ ExtIdle

NextLog ==
    \/ \E p \in Blocks : Write(p)
    \/ Close

SpecLog == InitLog /\ [][NextLog]_vars

\* ------------------------------------------------------------------------
\* The saved plan: uploadStateAndOutput, downloadPlanForApply, executeApply
\* ------------------------------------------------------------------------
Ids == 1..NumIds
StepIds == 1..NumStepIds

\* fmt.Sprintf("organization/%s/workspace/%s/job/%s/step/%s/terraformLibrary.tfplan",
\*             job.OrganizationId, job.WorkspaceId, job.JobId, job.StepId)
PlanKey(job) ==
    <<"organization", job.OrganizationId, "workspace", job.WorkspaceId,
      "job", job.JobId, "step", job.StepId, "terraformLibrary.tfplan">>

\* the TerraformJob of a step of the chosen job
StepJob(type, stepId) ==
    [ Type |-> type, OrganizationId |-> flow.org, WorkspaceId |-> flow.ws,
      JobId |-> flow.job, StepId |-> stepId ]

\* the plan file terraform plan -out writes for a step
PlanFile(job) == [planOf |-> <<job.JobId, job.StepId>>]

NoFile == [planOf |-> <<>>]

PlanFrame == <<pipelineVars, scriptVars, logVars, credVars, installVars, authVars,
               registryVars, moreVars>>

\* the Plan step: executePlan writes <wd>/terraform.tfplan and
\* uploadStateAndOutput uploads it under the key of the step; a failed upload
\* is logged
uploadStateAndOutput ==
    /\ flow.pc = "plan"
    /\ \E ok \in BOOLEAN :
          LET job == StepJob("terraformPlan", flow.planStep)
          IN  objects' = IF ok
                         THEN { o \in objects : o.key # PlanKey(job) }
                                 \cup {[key |-> PlanKey(job), content |-> PlanFile(job)]}
                         ELSE objects
    /\ flow' = [flow EXCEPT !.pc = "apply"]
    /\ UNCHANGED PlanFrame

\* the Apply step: downloadPlanForApply copies the object under the key of
\* the step to <wd>/terraformLibrary.tfPlan; no object: nothing is written
DownloadSavedPlan ==
    /\ flow.pc = "apply"
    /\ LET job == StepJob("terraformApply", flow.applyStep)
           found == { o \in objects : o.key = PlanKey(job) }
       IN  flow' = [flow EXCEPT !.pc = "executeApply",
                                !.readKey = PlanKey(job),
                                !.localPlan = IF found = {} THEN NoFile
                                              ELSE (CHOOSE o \in found : TRUE).content]
    /\ UNCHANGED objects
    /\ UNCHANGED PlanFrame

\* the Apply step: executeApply applies <wd>/terraformLibrary.tfPlan if the
\* file exists, else runs a fresh apply
ApplySavedPlan ==
    /\ flow.pc = "executeApply"
    /\ flow' = [flow EXCEPT !.pc = "applied",
                            !.applied = IF flow.localPlan # NoFile THEN flow.localPlan
                                        ELSE [planOf |-> <<"fresh">>]]
    /\ UNCHANGED objects
    /\ UNCHANGED PlanFrame

\* a job with a Plan step and a later Apply step; other jobs' plans may be stored
InitPlan ==
    /\ PipelineIdle
    /\ MoreIdle
    /\ ScriptIdle
    /\ LogIdle
    /\ CredsIdle
    /\ InstallIdle
    /\ AuthIdle
    /\ RegistryIdle
    /\ objects = {}
    /\ \E org \in Ids, ws \in Ids, job \in Ids, ps \in StepIds, as \in StepIds :
          /\ ps < as
          /\ flow = [ pc |-> "plan", org |-> org, ws |-> ws, job |-> job,
                      planStep |-> ps, applyStep |-> as,
                      readKey |-> <<>>, localPlan |-> NoFile, applied |-> NoFile ]

NextPlan ==
    \/ uploadStateAndOutput
    \/ DownloadSavedPlan
    \/ ApplySavedPlan

SpecPlan == InitPlan /\ [][NextPlan]_vars

\* ------------------------------------------------------------------------
\* Job goroutines and the credentials file: StartServer,
\* generateTerraformCredentials
\* ------------------------------------------------------------------------
CredsFrame == <<pipelineVars, scriptVars, logVars, planVars, installVars, authVars,
                registryVars, moreVars>>

\* the handler of POST /api/v1/terraform-rs starts a goroutine for the job
\* and answers; nothing waits for the goroutines of earlier requests
HandleRequest(w) ==
    /\ worker[w].pc = "idle"
    /\ worker' = [worker EXCEPT ![w].pc = "credentials"]
    /\ UNCHANGED <<rc, InternalSecret>>
    /\ UNCHANGED CredsFrame

\* generateTerraformCredentials up to the open of os.WriteFile: no token, or
\* no host to write credentials for: nothing is written; else the file
\* $HOME/.terraformrc is created or truncated
OpenCredentials(w) ==
    /\ worker[w].pc = "credentials"
    /\ \E hosts \in BOOLEAN, tokenOk \in BOOLEAN :
          IF InternalSecret /\ tokenOk /\ hosts
          THEN /\ rc' = "truncated"
               /\ worker' = [worker EXCEPT ![w].pc = "writing"]
          ELSE /\ rc' = rc
               /\ worker' = [worker EXCEPT ![w].pc = "command"]
    /\ UNCHANGED InternalSecret
    /\ UNCHANGED CredsFrame

\* os.WriteFile writes the content and closes the file
WriteCredentials(w) ==
    /\ worker[w].pc = "writing"
    /\ rc' = "credentials"
    /\ worker' = [worker EXCEPT ![w].pc = "command"]
    /\ UNCHANGED InternalSecret
    /\ UNCHANGED CredsFrame

\* the job's IaC command starts; it reads $HOME/.terraformrc (no
\* TF_CLI_CONFIG_FILE is set in its environment)
StartCommand(w) ==
    /\ worker[w].pc = "command"
    /\ worker' = [worker EXCEPT ![w].pc = "running", ![w].read = rc]
    /\ UNCHANGED <<rc, InternalSecret>>
    /\ UNCHANGED CredsFrame

\* the IaC command ends and ProcessJob returns
EndCommand(w) ==
    /\ worker[w].pc = "running"
    /\ worker' = [worker EXCEPT ![w].pc = "done"]
    /\ UNCHANGED <<rc, InternalSecret>>
    /\ UNCHANGED CredsFrame

InitCreds ==
    /\ PipelineIdle
    /\ MoreIdle
    /\ ScriptIdle
    /\ LogIdle
    /\ PlanIdle
    /\ InstallIdle
    /\ AuthIdle
    /\ RegistryIdle
    /\ rc \in {"absent", "credentials"}
    /\ InternalSecret \in BOOLEAN
    /\ worker = [w \in Workers |-> [pc |-> "idle", read |-> "none"]]

NextCreds ==
    \E w \in Workers :
        \/ HandleRequest(w)
        \/ OpenCredentials(w)
        \/ WriteCredentials(w)
        \/ StartCommand(w)
        \/ EndCommand(w)

SpecCreds == InitCreds /\ [][NextCreds]_vars

\* ------------------------------------------------------------------------
\* VersionManager: Install, installTerraform, installTofu
\* ------------------------------------------------------------------------
InstallFrame == <<pipelineVars, scriptVars, logVars, planVars, credVars, authVars,
                  registryVars, moreVars>>

\* version.NewVersion: digits, then groups of a dot and digits
RECURSIVE Segments(_)
Segments(s) ==
    IF s = <<>> THEN TRUE
    ELSE /\ Len(s) >= 2
         /\ s[1] = "."
         /\ s[2] = "d"
         /\ Segments(SubSeq(s, 3, Len(s)))

NewVersion(ver) == ver # <<>> /\ ver[1] = "d" /\ Segments(Tail(ver))

\* filepath.Join(tofuDir, fmt.Sprintf("tofu-%s", ver), "tofu")
TofuExecPath(ver) == <<"tofu", <<"tofu-">> \o ver, "tofu">>

ReturnErr(c) == [inst EXCEPT ![c].pc = "returned", ![c].err = TRUE]

\* Install(ver, tofu) is called. installTerraform parses the version first
\* and fails on an invalid one; installTofu goes on to the cache lookup
InstallCall(c) ==
    /\ inst[c].pc = "idle"
    /\ \E ver \in Versions, tofu \in BOOLEAN :
          LET call == [inst[c] EXCEPT !.ver = ver, !.tofu = tofu]
          IN  inst' = [inst EXCEPT ![c] =
                  IF tofu THEN [call EXCEPT !.pc = "stat"]
                  ELSE IF NewVersion(ver) THEN [call EXCEPT !.pc = "releases"]
                  ELSE [call EXCEPT !.pc = "returned", !.err = TRUE]]
    /\ UNCHANGED cache
    /\ UNCHANGED InstallFrame

\* installTerraform: releases.ExactVersion.Install downloads the release
InstallRelease(c) ==
    /\ inst[c].pc = "releases"
    /\ \E ok \in BOOLEAN :
          inst' = [inst EXCEPT ![c].pc = "returned", ![c].err = ~ok,
                               ![c].downloads = 1,
                               ![c].execPath = IF ok THEN <<"terraform">> ELSE <<>>,
                               ![c].handed = IF ok THEN "complete" ELSE "none"]
    /\ UNCHANGED cache
    /\ UNCHANGED InstallFrame

\* installTofu: os.Stat(execPath) succeeds as soon as the file exists
StatExec(c) ==
    /\ inst[c].pc = "stat"
    /\ LET e == cache[inst[c].ver]
       IN  inst' = IF e.exec # "absent"
                   THEN [inst EXCEPT ![c].pc = "returned",
                                     ![c].execPath = TofuExecPath(inst[c].ver),
                                     ![c].handed = e.exec]
                   ELSE [inst EXCEPT ![c].pc = "mkdir"]
    /\ UNCHANGED cache
    /\ UNCHANGED InstallFrame

\* installTofu: os.MkdirAll(installDir)
MkdirInstallDir(c) ==
    /\ inst[c].pc = "mkdir"
    /\ \E ok \in BOOLEAN :
          IF ok
          THEN /\ cache' = [cache EXCEPT ![inst[c].ver].dir = TRUE]
               /\ inst' = [inst EXCEPT ![c].pc = "curl"]
          ELSE /\ cache' = cache
               /\ inst' = ReturnErr(c)
    /\ UNCHANGED InstallFrame

\* installTofu: curl -sL -o zipPath url. A release that does not exist
\* leaves the error page in the file and curl exits 0
Download(c) ==
    /\ inst[c].pc = "curl"
    /\ \E ok \in BOOLEAN :
          IF ok
          THEN /\ cache' = [cache EXCEPT ![inst[c].ver].zip =
                               IF NewVersion(inst[c].ver) THEN "archive" ELSE "page"]
               /\ inst' = [inst EXCEPT ![c].pc = "unzip", ![c].downloads = 1]
          ELSE /\ cache' = cache
               /\ inst' = [ReturnErr(c) EXCEPT ![c].downloads = 1]
    /\ UNCHANGED InstallFrame

\* installTofu: unzip -o -d installDir zipPath starts; it fails on a file
\* that is no archive or is gone, else it creates the executable
Extract(c) ==
    /\ inst[c].pc = "unzip"
    /\ IF cache[inst[c].ver].zip = "archive"
       THEN /\ cache' = [cache EXCEPT ![inst[c].ver].exec = "partial"]
            /\ inst' = [inst EXCEPT ![c].pc = "extracting"]
       ELSE /\ cache' = cache
            /\ inst' = ReturnErr(c)
    /\ UNCHANGED InstallFrame

\* installTofu: unzip ends, os.Remove(zipPath), os.Chmod(execPath), return
FinishExtract(c) ==
    /\ inst[c].pc = "extracting"
    /\ cache' = [cache EXCEPT ![inst[c].ver].exec = "complete",
                              ![inst[c].ver].zip = "absent"]
    /\ inst' = [inst EXCEPT ![c].pc = "returned",
                            ![c].execPath = TofuExecPath(inst[c].ver),
                            ![c].handed = "complete"]
    /\ UNCHANGED InstallFrame

InitInstall ==
    /\ PipelineIdle
    /\ MoreIdle
    /\ ScriptIdle
    /\ LogIdle
    /\ PlanIdle
    /\ CredsIdle
    /\ InstallIdle
    /\ AuthIdle
    /\ RegistryIdle

NextInstall ==
    \E c \in Callers :
        \/ InstallCall(c)
        \/ InstallRelease(c)
        \/ StatExec(c)
        \/ MkdirInstallDir(c)
        \/ Download(c)
        \/ Extract(c)
        \/ FinishExtract(c)

SpecInstall == InitInstall /\ [][NextInstall]_vars

\* ------------------------------------------------------------------------
\* The internal token: GenerateTerrakubeToken, ValidateToken, AuthMiddleware
\* ------------------------------------------------------------------------
AuthFrame == <<pipelineVars, scriptVars, logVars, planVars, credVars, installVars,
               registryVars, moreVars>>

\* characters of a secret: "A" is in both base64 alphabets, "-" in the URL
\* alphabet only, "+" in the standard alphabet only, "=" is the padding
SecretChars == {"A", "-", "+", "="}

Secrets == UNION { [1..n -> SecretChars] : n \in 1..MaxSecretLen }

\* the value of a character in base64.URLEncoding or base64.StdEncoding
Value(alphabet, c) ==
    IF c = "A" THEN 0
    ELSE IF c = "-" /\ alphabet = "url" THEN 62
    ELSE IF c = "+" /\ alphabet = "std" THEN 62
    ELSE -1

DecodeErr == [ok |-> FALSE, bytes |-> <<>>]

\* the last four characters of a padded encoding: xxxx, xxx= or xx==
DecodeQuantum(q, alphabet) ==
    LET v(i) == Value(alphabet, q[i])
    IN  IF v(1) < 0 \/ v(2) < 0 THEN DecodeErr
        ELSE IF q[3] = "=" /\ q[4] = "="
             THEN [ok |-> TRUE, bytes |-> << (v(1) * 64 + v(2)) \div 16 >>]
        ELSE IF v(3) < 0 THEN DecodeErr
        ELSE IF q[4] = "="
             THEN LET m == v(1) * 4096 + v(2) * 64 + v(3)
                  IN  [ok |-> TRUE, bytes |-> << m \div 1024, (m \div 4) % 256 >>]
        ELSE IF v(4) < 0 THEN DecodeErr
        ELSE LET n == v(1) * 262144 + v(2) * 4096 + v(3) * 64 + v(4)
             IN  [ok |-> TRUE, bytes |-> << n \div 65536, (n \div 256) % 256, n % 256 >>]

RECURSIVE DecodeString(_, _)
\* Encoding.DecodeString of a padded encoding: groups of four characters,
\* padding in the last group only
DecodeString(str, alphabet) ==
    IF str = <<>> THEN [ok |-> TRUE, bytes |-> <<>>]
    ELSE IF Len(str) < 4 THEN DecodeErr
    ELSE LET q == DecodeQuantum(SubSeq(str, 1, 4), alphabet)
         IN  IF Len(str) = 4 THEN q
             ELSE IF ~q.ok \/ Len(q.bytes) # 3 THEN DecodeErr
             ELSE LET rest == DecodeString(SubSeq(str, 5, Len(str)), alphabet)
                  IN  IF rest.ok THEN [ok |-> TRUE, bytes |-> q.bytes \o rest.bytes]
                      ELSE DecodeErr

\* auth.decodeSecret: base64.URLEncoding, then base64.StdEncoding
decodeSecret(secret) ==
    LET decoded == DecodeString(secret, "url")
    IN  IF decoded.ok THEN decoded ELSE DecodeString(secret, "std")

\* middleware.base64URLDecode: padding added by length, base64.URLEncoding
base64URLDecode(str) ==
    LET padded == IF Len(str) % 4 = 2 THEN str \o <<"=", "=">>
                  ELSE IF Len(str) % 4 = 3 THEN str \o <<"=">>
                  ELSE str
    IN  DecodeString(padded, "url")

\* the clock, in days, and the lifetime of a minted token
Now == 40
TokenDays == 30

\* HMAC-SHA256: a signature stands for its key and its input; 32 bytes long
Hmac(key, input) == <<key, input>>
SigBytes == 32

\* bytes of the JSON payload of a token
PayloadBytes == {200, 201, 202}

\* length of base64.RawURLEncoding of n bytes
RawLen(n) == (n * 8 + 5) \div 6

\* base64URLDecode of a segment of that length: the padding must complete it
SegmentDecodes(len) ==
    LET padded == IF len % 4 = 2 THEN len + 2
                  ELSE IF len % 4 = 3 THEN len + 1 ELSE len
    IN  padded % 4 = 0

SigningInput(t) == <<t.alg, t.iss, t.iat, t.exp, t.payload>>

\* jwt.NewWithClaims(HS256, claims) and SignedString(key)
SignedToken(alg, iss, iat, exp, plen, key) ==
    LET t == [parts |-> 3, alg |-> alg, iss |-> iss, iat |-> iat, exp |-> exp,
              payload |-> plen]
    IN  [ parts |-> 3, alg |-> alg, iss |-> iss, iat |-> iat, exp |-> exp,
          payload |-> plen, sig |-> Hmac(key, SigningInput(t)) ]

\* GenerateTerrakubeToken(internalSecret)
GenerateTerrakubeToken(internalSecret, plen) ==
    IF internalSecret = <<>> THEN [ok |-> FALSE, token |-> NoToken]
    ELSE LET decodedSecret == decodeSecret(internalSecret)
         IN  IF ~decodedSecret.ok THEN [ok |-> FALSE, token |-> NoToken]
             ELSE [ok |-> TRUE,
                   token |-> SignedToken("HS256", "TerrakubeInternal", Now,
                                         Now + TokenDays, plen, decodedSecret.bytes)]

\* the claims validation of jwt.Parse: a token past its exp is rejected
Expired(t) == t.exp > 0 /\ Now > t.exp

\* validateHMACToken(tokenString, secretStr)
validateHMACToken(t, secretStr) ==
    IF secretStr = <<>> THEN FALSE
    ELSE LET secret == decodeSecret(secretStr)
         IN  /\ secret.ok
             /\ t.parts = 3
             /\ t.alg = "HS256"
             /\ t.sig = Hmac(secret.bytes, SigningInput(t))
             /\ ~Expired(t)

\* ValidateToken(tokenString, internalSecret, patSecret): no issuer URI
ValidateToken(t, internalSecret, patSecret) ==
    IF t.parts # 3 THEN FALSE
    ELSE IF t.iss = "TerrakubeInternal" THEN validateHMACToken(t, internalSecret)
    ELSE IF t.iss = "Terrakube" THEN validateHMACToken(t, patSecret)
    ELSE FALSE

\* middleware.verifyHMACToken(token, secretBase64URL)
verifyHMACToken(t, secretBase64URL) ==
    LET secret == base64URLDecode(secretBase64URL)
    IN  /\ t.parts = 3
        /\ secret.ok
        /\ SegmentDecodes(RawLen(SigBytes))
        /\ t.sig = Hmac(secret.bytes, SigningInput(t))

\* middleware.decodeJWTClaims(token)
decodeJWTClaims(t) == t.parts = 3 /\ SegmentDecodes(RawLen(t.payload))

Answer(status) == [status |-> status, reached |-> status = 200]

\* AuthMiddleware(config) around a handler that answers 200
AuthMiddleware(conf, r) ==
    IF r.public THEN Answer(200)
    ELSE IF r.header = "none" THEN Answer(401)
    ELSE IF r.header # "bearer" THEN Answer(401)
    ELSE IF ~decodeJWTClaims(r.token) THEN Answer(401)
    ELSE IF r.token.iss = "Terrakube" /\ ~verifyHMACToken(r.token, conf.PatSecret)
         THEN Answer(401)
    ELSE IF r.token.iss = "TerrakubeInternal"
              /\ ~verifyHMACToken(r.token, conf.InternalSecret)
         THEN Answer(401)
    ELSE IF Expired(r.token) THEN Answer(401)
    ELSE Answer(200)

\* who signed a presented token, and the key they hold; the keys of the
\* OIDC provider and of an attacker are no bytes of a configured secret
Signers == {"internal", "pat", "oidc", "attacker"}

SignerKey(signer) ==
    IF signer = "internal" THEN decodeSecret(config.InternalSecret).bytes
    ELSE IF signer = "pat" THEN decodeSecret(config.PatSecret).bytes
    ELSE IF signer = "oidc" THEN <<-1>>
    ELSE <<-2>>

Issuers == {"Terrakube", "TerrakubeInternal", "https://dex"}

\* the tokens a client presents
PresentedTokens ==
    { SignedToken(IF signer = "oidc" THEN "RS256" ELSE "HS256", iss, Now - 2, exp,
                  200, SignerKey(signer)) :
        signer \in Signers, iss \in Issuers, exp \in {0, Now - 1, Now + 1} }
    \cup { [SignedToken("HS256", "Terrakube", Now - 2, 0, 200, <<-2>>)
               EXCEPT !.parts = 2] }

\* the executor mints its token
MintToken ==
    /\ auth.pc = "idle"
    /\ \E plen \in PayloadBytes :
          LET m == GenerateTerrakubeToken(config.InternalSecret, plen)
          IN  auth' = [auth EXCEPT !.pc = IF m.ok THEN "minted" ELSE "mintFailed",
                                   !.token = m.token]
    /\ UNCHANGED config
    /\ UNCHANGED AuthFrame

\* the minted token is validated under the same secret
ValidateMinted ==
    /\ auth.pc = "minted"
    /\ auth' = [auth EXCEPT !.pc = "validated",
                            !.valid = ValidateToken(auth.token, config.InternalSecret,
                                                    config.PatSecret)]
    /\ UNCHANGED config
    /\ UNCHANGED AuthFrame

\* the minted token is sent to a non-public path of the API
ServeMinted ==
    /\ auth.pc = "validated"
    /\ LET r == [public |-> FALSE, header |-> "bearer", token |-> auth.token]
           a == AuthMiddleware(config, r)
       IN  auth' = [auth EXCEPT !.pc = "servedMinted", !.req = r,
                                !.status = a.status, !.reached = a.reached]
    /\ UNCHANGED config
    /\ UNCHANGED AuthFrame

\* a client sends a request to the API
ServeRequest ==
    /\ auth.pc = "idle"
    /\ \E public \in BOOLEAN, header \in {"none", "basic", "bearer"},
          t \in PresentedTokens :
          LET r == [public |-> public, header |-> header,
                    token |-> IF header = "bearer" THEN t ELSE NoToken]
              a == AuthMiddleware(config, r)
          IN  auth' = [auth EXCEPT !.pc = "served", !.req = r,
                                   !.status = a.status, !.reached = a.reached]
    /\ UNCHANGED config
    /\ UNCHANGED AuthFrame

InitAuth ==
    /\ PipelineIdle
    /\ MoreIdle
    /\ ScriptIdle
    /\ LogIdle
    /\ PlanIdle
    /\ CredsIdle
    /\ InstallIdle
    /\ \E secret \in Secrets :
          config = [InternalSecret |-> secret, PatSecret |-> <<"A", "A", "A", "A">>]
    /\ auth = IdleAuth
    /\ RegistryIdle

NextAuth ==
    \/ MintToken
    \/ ValidateMinted
    \/ ServeMinted
    \/ ServeRequest

SpecAuth == InitAuth /\ [][NextAuth]_vars

\* ------------------------------------------------------------------------
\* The registry: Start, jwtAuthMiddleware
\* ------------------------------------------------------------------------
RegistryFrame == <<pipelineVars, scriptVars, logVars, planVars, credVars, installVars,
                   authVars, moreVars>>

\* the routes Start registers on the engine, and on the protected group
EngineRoutes ==
    { "/health", "/actuator/health", "/actuator/health/liveness",
      "/actuator/health/readiness", "/.well-known/terraform.json",
      "/terraform/modules/v1/download/:org/:name/:provider/:version/module.zip" }

ProtectedRoutes ==
    { "/terraform/modules/v1/:org/:name/:provider/versions",
      "/terraform/modules/v1/:org/:name/:provider/:version/download",
      "/terraform/readme/v1/:org/:name/:provider/:version/download",
      "/terraform/providers/v1/:org/:provider/versions",
      "/terraform/providers/v1/:org/:provider/:version/download/:os/:arch" }

Routes == EngineRoutes \cup ProtectedRoutes

\* validateOIDCToken(tokenString, issuerUri): the keys of the issuer are
\* fetched, the token must be RS256, signed by one of them and not expired
validateOIDCToken(t, jwksOk) ==
    /\ jwksOk
    /\ t.alg = "RS256"
    /\ t.sig = Hmac(SignerKey("oidc"), SigningInput(t))
    /\ ~Expired(t)

\* ValidateTokenWithIssuer(tokenString, internalSecret, patSecret, issuerUri)
ValidateTokenWithIssuer(t, internalSecret, patSecret, issuerUri, jwksOk) ==
    IF t.parts # 3 THEN FALSE
    ELSE IF t.iss = "TerrakubeInternal" THEN validateHMACToken(t, internalSecret)
    ELSE IF t.iss = "Terrakube" THEN validateHMACToken(t, patSecret)
    ELSE IF ~issuerUri THEN FALSE
    ELSE validateOIDCToken(t, jwksOk)

\* a middleware that lets every request through
jwtAuthMiddleware_next(c, jwksOk) == 0

\* jwtAuthMiddleware(cfg): 0 for c.Next(), else the status it aborts with
jwtAuthMiddleware(c, jwksOk) ==
    IF cfg.AuthValidationType = "" \/ cfg.AuthValidationType = "LOCAL" THEN 0
    ELSE IF c.header = "none" THEN 401
    ELSE IF c.header # "bearer" THEN 401
    ELSE IF ~ValidateTokenWithIssuer(c.token, config.InternalSecret, config.PatSecret,
                                     cfg.IssuerUri, jwksOk)
         THEN 401
    ELSE 0

\* a request to a route of the registry: the middleware of the protected
\* group runs before the handler, and the handler sets the status
RegistryRequest ==
    /\ registry.pc = "idle"
    /\ \E route \in Routes, header \in {"none", "basic", "bearer"},
          t \in PresentedTokens, jwksOk \in BOOLEAN, handled \in {200, 204, 500} :
          LET c == [route |-> route, header |-> header,
                    token |-> IF header = "bearer" THEN t ELSE NoToken]
              aborted == IF route \in ProtectedRoutes
                         THEN jwtAuthMiddleware(c, jwksOk) ELSE 0
          IN  registry' = [ pc |-> "served", route |-> route, header |-> c.header,
                            token |-> c.token,
                            status |-> IF aborted # 0 THEN aborted ELSE handled,
                            ran |-> aborted = 0 ]
    /\ UNCHANGED cfg
    /\ UNCHANGED RegistryFrame

\* the secrets are those of the deployment the API is configured with
InitRegistry ==
    /\ PipelineIdle
    /\ MoreIdle
    /\ ScriptIdle
    /\ LogIdle
    /\ PlanIdle
    /\ CredsIdle
    /\ InstallIdle
    /\ \E secret \in {<<"A", "A", "A", "A">>, <<"A", "-", "=", "=">>, <<"+", "+", "+", "+">>} :
          config = [InternalSecret |-> secret, PatSecret |-> <<"A", "A", "A", "A">>]
    /\ auth = IdleAuth
    /\ \E type \in {"", "LOCAL", "DEX"}, issuerUri \in BOOLEAN :
          cfg = [AuthValidationType |-> type, IssuerUri |-> issuerUri]
    /\ registry = IdleRegistry

NextRegistry == RegistryRequest

SpecRegistry == InitRegistry /\ [][NextRegistry]_vars

\* ------------------------------------------------------------------------
\* The variables of the ExecutionContext: JobScheduler.loadVariables
\* ------------------------------------------------------------------------
CtxFrame == <<pipelineVars, scriptVars, logVars, planVars, credVars, installVars,
              authVars, registryVars, tfVars, cloneVars, lateVars>>

Categories == {"ENV", "TERRAFORM"}
Keys == 1..NumKeys

\* the organization and the workspace of the job, and another of each
Scopes == {"mine", "other"}

\* rows of globalvar (scope: organization_id) and of variable (scope:
\* workspace_id); a key is defined at most once per scope and category
Rows(value) ==
    { [scope |-> sc, category |-> c, key |-> k, value |-> value] :
        sc \in Scopes, c \in Categories, k \in Keys }

\* the map a query fills: the selected rows, key -> value
Fill(m, rows) ==
    [k \in DOMAIN m \cup {r.key : r \in rows} |->
        IF \E r \in rows : r.key = k
        THEN (CHOOSE r \in rows : r.key = k).value
        ELSE m[k]]

Select(table, id, category) ==
    { r \in table : r.scope = id /\ r.category = category }

\* a loader that reads the workspace first, so that the globals override
loadVariables_globalLast(orgID, workspaceID, category, okGlobal, okWorkspace) ==
    LET empty == [k \in {} |-> ""]
        m2 == IF okWorkspace
              THEN Fill(empty, Select(db.variable, workspaceID, category)) ELSE empty
    IN  IF okGlobal THEN Fill(m2, Select(db.globalvar, orgID, category)) ELSE m2

\* loadVariables(ctx, orgID, workspaceID, category): the globals, then the
\* variables of the workspace over them; a query that fails adds nothing
loadVariables(orgID, workspaceID, category, okGlobal, okWorkspace) ==
    LET empty == [k \in {} |-> ""]
        m1 == IF okGlobal
              THEN Fill(empty, Select(db.globalvar, orgID, category)) ELSE empty
    IN  IF okWorkspace THEN Fill(m1, Select(db.variable, workspaceID, category)) ELSE m1

\* execCtx.EnvVars = s.loadVariables(ctx, orgID, workspaceID, "ENV")
LoadEnvVars ==
    /\ execCtx.pc = "env"
    /\ \E okGlobal \in BOOLEAN, okWorkspace \in BOOLEAN :
          execCtx' = [execCtx EXCEPT
                         !.pc = "tf",
                         !.EnvVars = loadVariables("mine", "mine", "ENV",
                                                   okGlobal, okWorkspace),
                         !.queried = execCtx.queried /\ okGlobal /\ okWorkspace]
    /\ UNCHANGED db
    /\ UNCHANGED CtxFrame

\* execCtx.TFVars = s.loadVariables(ctx, orgID, workspaceID, "TERRAFORM")
LoadTFVars ==
    /\ execCtx.pc = "tf"
    /\ \E okGlobal \in BOOLEAN, okWorkspace \in BOOLEAN :
          execCtx' = [execCtx EXCEPT
                         !.pc = "built",
                         !.TFVars = loadVariables("mine", "mine", "TERRAFORM",
                                                  okGlobal, okWorkspace),
                         !.queried = execCtx.queried /\ okGlobal /\ okWorkspace]
    /\ UNCHANGED db
    /\ UNCHANGED CtxFrame

InitVars ==
    /\ PipelineIdle
    /\ ScriptIdle
    /\ LogIdle
    /\ PlanIdle /\ CredsIdle /\ InstallIdle /\ AuthIdle /\ RegistryIdle
    /\ TfIdle /\ CloneIdle /\ LateIdle
    /\ \E g \in SUBSET Rows("global"), w \in SUBSET Rows("workspace") :
          /\ \A r \in g \cup w : r.scope = "other" => r.category = "ENV" /\ r.key = 1
          /\ db = [globalvar |-> g, variable |-> w]
    /\ execCtx = [pc |-> "env", EnvVars |-> [k \in {} |-> ""],
                  TFVars |-> [k \in {} |-> ""], queried |-> TRUE]

NextVars ==
    \/ LoadEnvVars
    \/ LoadTFVars

SpecVars == InitVars /\ [][NextVars]_vars

\* ------------------------------------------------------------------------
\* The phases of one executeTerraform call: scripts, init, command, uploads
\* ------------------------------------------------------------------------
TfFrame == <<pipelineVars, scriptVars, logVars, planVars, credVars, installVars,
             authVars, registryVars, ctxVars, cloneVars, lateVars>>

\* what the call did, in order: an ExecutePhase call, a script it ran, the
\* IaC init, the IaC command of the job type, the uploads, a status report
Event(ev, phase, cmd) == [ev |-> ev, phase |-> phase, cmd |-> cmd]
ScriptEvents(phase, scripts) ==
    <<Event("phase", phase, 0)>> \o
    [i \in 1..Len(scripts) |-> Event("script", phase, scripts[i])]

\* ExecutePhase("after") returning its error to the caller of executeTerraform
\* instead of logging it
TfAfter_fatal ==
    /\ tf.pc = "after"
    /\ LET r == runPhase(tf.CommandList, "after")
       IN  tf' = [tf EXCEPT !.pc = IF r.err THEN "returned" ELSE "upload",
                            !.err = r.err,
                            !.rep = IF r.err THEN SetCompletedRep(FALSE) ELSE @,
                            !.scriptErr = r.err,
                            !.trace = @ \o ScriptEvents("after", r.executed)]
    /\ UNCHANGED TfFrame

\* scriptExec.ExecutePhase("beforeInit"); on error return without a report
TfBeforeInit ==
    /\ tf.pc = "beforeInit"
    /\ LET r == runPhase(tf.CommandList, "beforeInit")
       IN  tf' = [tf EXCEPT !.pc = IF r.err THEN "returned" ELSE "init",
                            !.err = r.err,
                            !.trace = @ \o ScriptEvents("beforeInit", r.executed)]
    /\ UNCHANGED TfFrame

\* tfExecutor.Execute(), first half: terraform init; on error Execute returns
\* (nil, error) at once
TfInit ==
    /\ tf.pc = "init"
    /\ \E initOk \in BOOLEAN :
          LET r == TfExecute(tf.Type, tf.IgnoreError, FALSE, 0)
          IN  tf' = [tf EXCEPT !.pc = IF initOk THEN "main" ELSE "onFailure",
                               !.initOk = initOk,
                               !.result = IF initOk THEN @ ELSE r.result,
                               !.err = IF initOk THEN @ ELSE r.err,
                               !.trace = Append(@, Event("init", "", 0))]
    /\ UNCHANGED TfFrame

\* tfExecutor.Execute(), second half: the command of the job type, run right
\* after init, and the IgnoreError coercion
TfMain ==
    /\ tf.pc = "main"
    /\ \E exit \in ExitCodes :
          LET r == TfExecute(tf.Type, tf.IgnoreError, TRUE, exit)
          IN  tf' = [tf EXCEPT !.pc = IF r.err THEN "onFailure" ELSE "after",
                               !.exit = exit,
                               !.result = r.result,
                               !.err = r.err,
                               !.trace = Append(@, Event("main", "", 0))]
    /\ UNCHANGED TfFrame

\* err != nil: ExecutePhase("onFailure") with its result dropped,
\* SetCompleted(false), return err
TfOnFailure ==
    /\ tf.pc = "onFailure"
    /\ LET r == runPhase(tf.CommandList, "onFailure")
       IN  tf' = [tf EXCEPT !.pc = "returned",
                            !.rep = SetCompletedRep(FALSE),
                            !.scriptErr = r.err,
                            !.trace = (@ \o ScriptEvents("onFailure", r.executed))
                                         \o <<Event("report", "", 0)>>]
    /\ UNCHANGED TfFrame

\* ExecutePhase("after"); an error is logged as a warning
TfAfter ==
    /\ tf.pc = "after"
    /\ LET r == runPhase(tf.CommandList, "after")
       IN  tf' = [tf EXCEPT !.pc = "upload",
                            !.scriptErr = r.err,
                            !.trace = @ \o ScriptEvents("after", r.executed)]
    /\ UNCHANGED TfFrame

\* p.uploadStateAndOutput(job, workingDir)
TfUpload ==
    /\ tf.pc = "upload"
    /\ tf' = [tf EXCEPT !.pc = "finalStatus",
                        !.trace = Append(@, Event("upload", "", 0))]
    /\ UNCHANGED TfFrame

\* SetPending for a plan with changes, else SetCompleted(true); return nil
TfFinalStatus ==
    /\ tf.pc = "finalStatus"
    /\ tf' = [tf EXCEPT !.pc = "returned",
                        !.rep = FinalStatus(tf.Type, tf.result),
                        !.trace = Append(@, Event("report", "", 0))]
    /\ UNCHANGED TfFrame

\* executeTerraform is entered with the installs and the generated files
\* done, for a job of any IaC type and any short command list
InitTf ==
    /\ PipelineIdle
    /\ ScriptIdle
    /\ LogIdle
    /\ PlanIdle /\ CredsIdle /\ InstallIdle /\ AuthIdle /\ RegistryIdle
    /\ CtxIdle /\ CloneIdle /\ LateIdle
    /\ \E type \in TerraformTypes, ignoreError \in BOOLEAN, list \in ShortLists :
          tf = [pc |-> "beforeInit", Type |-> type, IgnoreError |-> ignoreError,
                CommandList |-> list, initOk |-> FALSE, exit |-> -1,
                result |-> Nil, err |-> FALSE, rep |-> NoReport,
                scriptErr |-> FALSE, trace |-> <<>>]

NextTf ==
    \/ TfBeforeInit
    \/ TfInit
    \/ TfMain
    \/ TfOnFailure
    \/ TfAfter
    \/ TfUpload
    \/ TfFinalStatus

SpecTf == InitTf /\ [][NextTf]_vars

\* ------------------------------------------------------------------------
\* The clone of a module version: git.Service.CloneRepository
\* ------------------------------------------------------------------------
CloneFrame == <<pipelineVars, scriptVars, logVars, planVars, credVars, installVars,
                authVars, registryVars, ctxVars, tfVars, lateVars>>

\* values of tagPrefix and version
TagPrefixes == {<<>>, <<"p", "/">>}
ModuleVersions == {<<"1">>}

\* values of folder
ModuleFolders == {<<>>, <<"m">>}

\* the directory of the k-th successful os.MkdirTemp of the call; "" for none
TempDirOf(k) == IF k = 0 THEN <<>> ELSE <<"/", "t">> \o <<(IF k = 1 THEN "1" ELSE "2")>>

\* setupSSHEnv writes a key: vcsType has the prefix SSH and accessToken is set
UsesSSHKey == clone.ssh /\ clone.token

\* the tag of the first and of the second attempt
FirstTag(tagPrefix, version) == tagPrefix \o <<"v">> \o version
SecondTag(tagPrefix, version) == tagPrefix \o version

\* a git clone into dir: the record of the attempt. git refuses a destination
\* that exists and is not empty, and there is no destination when MkdirTemp
\* failed
Attempt(tag, k, ok) ==
    [tag |-> tag, dir |-> k, empty |-> k # 0 /\ clone.content[k] = {}, ok |-> ok]
CanSucceed(k) == k # 0 /\ clone.content[k] = {}

\* CloneRepository trying the tag without "v" first
CloneFirst_plainFirst ==
    /\ clone.pc = "first"
    /\ \E ok \in BOOLEAN :
          /\ ok => CanSucceed(clone.tempDir)
          /\ clone' = [clone EXCEPT
                !.pc = IF ok THEN "result" ELSE "retry",
                !.attempts = Append(@, Attempt(SecondTag(clone.tagPrefix, clone.version),
                                               clone.tempDir, ok)),
                !.content = IF ok THEN [@ EXCEPT ![clone.tempDir] = {"repo"}] ELSE @]
    /\ UNCHANGED CloneFrame

\* tempDir, err := os.MkdirTemp("", "terrakube-registry")
CloneMkdirTemp ==
    /\ clone.pc = "mkdir"
    /\ \E ok \in BOOLEAN :
          clone' = IF ok
                   THEN [clone EXCEPT !.pc = "ssh", !.tempDir = 1, !.made = 1,
                                      !.exists = {1}]
                   ELSE [clone EXCEPT !.pc = "returned", !.err = TRUE]
    /\ UNCHANGED CloneFrame

\* setupSSHEnv(vcsType, accessToken, tempDir): without an SSH key nothing is
\* written; else <tempDir>/.ssh is made and the key written into it, and a
\* failure of either returns the error
setupSSHEnv ==
    /\ clone.pc = "ssh"
    /\ IF ~UsesSSHKey
       THEN clone' = [clone EXCEPT !.pc = "first"]
       ELSE \E mkdirOk \in BOOLEAN, writeOk \in BOOLEAN :
               clone' = IF ~mkdirOk
                        THEN [clone EXCEPT !.pc = "returned", !.err = TRUE]
                        ELSE IF ~writeOk
                        THEN [clone EXCEPT !.pc = "returned", !.err = TRUE,
                                           !.content[1] = {".ssh"}]
                        ELSE [clone EXCEPT !.pc = "first", !.sshCleanup = TRUE,
                                           !.content[1] = {".ssh"}]
    /\ UNCHANGED CloneFrame

\* git clone --depth 1 --branch <tagPrefix>v<version> repoURL tempDir
CloneFirst ==
    /\ clone.pc = "first"
    /\ \E ok \in BOOLEAN :
          /\ ok => CanSucceed(clone.tempDir)
          /\ clone' = [clone EXCEPT
                !.pc = IF ok THEN "result" ELSE "retry",
                !.attempts = Append(@, Attempt(FirstTag(clone.tagPrefix, clone.version),
                                               clone.tempDir, ok)),
                !.content = IF ok THEN [@ EXCEPT ![clone.tempDir] = {"repo"}] ELSE @]
    /\ UNCHANGED CloneFrame

\* the first clone failed: os.RemoveAll(tempDir); tempDir, _ = os.MkdirTemp
CloneRetry ==
    /\ clone.pc = "retry"
    /\ \E ok \in BOOLEAN :
          clone' = [clone EXCEPT
                !.pc = "second",
                !.exists = (@ \ {clone.tempDir}) \cup (IF ok THEN {2} ELSE {}),
                !.content = [@ EXCEPT ![clone.tempDir] = {}],
                !.tempDir = IF ok THEN 2 ELSE 0,
                !.made = IF ok THEN 2 ELSE @]
    /\ UNCHANGED CloneFrame

\* git clone --depth 1 --branch <tagPrefix><version> repoURL tempDir; on error
\* return "git clone failed for tag ..."
CloneSecond ==
    /\ clone.pc = "second"
    /\ \E ok \in BOOLEAN :
          /\ ok => CanSucceed(clone.tempDir)
          /\ clone' = [clone EXCEPT
                !.pc = IF ok THEN "result" ELSE "returned",
                !.err = ~ok,
                !.attempts = Append(@, Attempt(SecondTag(clone.tagPrefix, clone.version),
                                               clone.tempDir, ok)),
                !.content = IF ok THEN [@ EXCEPT ![clone.tempDir] = {"repo"}] ELSE @]
    /\ UNCHANGED CloneFrame

\* return filepath.Join(tempDir, folder) or tempDir
CloneResult ==
    /\ clone.pc = "result"
    /\ clone' = [clone EXCEPT
          !.pc = "returned",
          !.dir = IF clone.folder # <<>>
                  THEN Join(TempDirOf(clone.tempDir), clone.folder)
                  ELSE TempDirOf(clone.tempDir)]
    /\ UNCHANGED CloneFrame

\* defer sshCleanup(): os.RemoveAll(<first tempDir>/.ssh)
CloneDefer ==
    /\ clone.pc = "returned"
    /\ clone' = [clone EXCEPT
          !.pc = "done",
          !.content = IF clone.sshCleanup THEN [@ EXCEPT ![1] = @ \ {".ssh"}] ELSE @]
    /\ UNCHANGED CloneFrame

InitClone ==
    /\ PipelineIdle
    /\ ScriptIdle
    /\ LogIdle
    /\ PlanIdle /\ CredsIdle /\ InstallIdle /\ AuthIdle /\ RegistryIdle
    /\ CtxIdle /\ TfIdle /\ LateIdle
    /\ \E ssh \in BOOLEAN, token \in BOOLEAN, tagPrefix \in TagPrefixes,
          version \in ModuleVersions, folder \in ModuleFolders :
          clone = [pc |-> "mkdir", ssh |-> ssh, token |-> token,
                   tagPrefix |-> tagPrefix, version |-> version, folder |-> folder,
                   tempDir |-> 0, made |-> 0, exists |-> {},
                   content |-> [k \in 1..2 |-> {}],
                   sshCleanup |-> FALSE, attempts |-> <<>>,
                   dir |-> <<>>, err |-> FALSE]

NextClone ==
    \/ CloneMkdirTemp
    \/ setupSSHEnv
    \/ CloneFirst
    \/ CloneRetry
    \/ CloneSecond
    \/ CloneResult
    \/ CloneDefer

SpecClone == InitClone /\ [][NextClone]_vars

\* ------------------------------------------------------------------------
\* The variable groups and the idle state of the specifications above, for
\* the specifications below
\* ------------------------------------------------------------------------
earlyVars == <<pipelineVars, scriptVars, logVars, planVars, credVars, installVars,
               authVars, registryVars, ctxVars, tfVars, cloneVars>>

EarlyIdle ==
    /\ PipelineIdle
    /\ ScriptIdle
    /\ LogIdle
    /\ PlanIdle /\ CredsIdle /\ InstallIdle /\ AuthIdle /\ RegistryIdle
    /\ CtxIdle /\ TfIdle /\ CloneIdle

\* ------------------------------------------------------------------------
\* The JWKS cache of the OIDC validation: getJWKS
\* ------------------------------------------------------------------------
JwksFrame == <<earlyVars, store, jobTable, art, rkey, pod>>

Validators == 1..NumValidators
IssuerUris == {"a", "b"}
\* the clock is read in minutes and advances by TickMinutes
TickMinutes == 5
MaxTime == MaxTicks * TickMinutes

\* no entry of jwksCache for the issuer
NoJwks == [fetchedAt |-> -1, keys |-> -1]

IdleValidation == [pc |-> "idle", iss |-> "a", start |-> -1, hit |-> FALSE,
                   requests |-> 0, keys |-> -1, err |-> FALSE]

\* the cache check of getJWKS with a TTL that never expires
CacheFresh_forever(cached, now) == cached.fetchedAt # -1

\* ok && time.Since(cached.fetchedAt) < jwksCacheTTL
CacheFresh(cached, now) ==
    cached.fetchedAt # -1 /\ now - cached.fetchedAt < jwksCacheTTL

\* time passes
JwksTick ==
    /\ jwks.pc = "run"
    /\ jwks.now < MaxTime
    /\ jwks' = [jwks EXCEPT !.now = @ + TickMinutes]
    /\ UNCHANGED JwksFrame

\* validateOIDCToken calls getJWKS(issuerUri): the read of the cache under
\* RLock; fresh keys are returned at once
getJWKSRead(v, iss) ==
    /\ jwks.pc = "run"
    /\ jwks.call[v].pc = "idle"
    /\ LET cached == jwks.cache[iss]
       IN  jwks' = [jwks EXCEPT !.call[v] =
              IF CacheFresh(cached, jwks.now)
              THEN [IdleValidation EXCEPT !.pc = "returned", !.iss = iss,
                       !.start = jwks.now, !.hit = TRUE, !.keys = cached.keys]
              ELSE [IdleValidation EXCEPT !.pc = "discover", !.iss = iss,
                       !.start = jwks.now]]
    /\ UNCHANGED JwksFrame

\* http.Get(<issuer>/.well-known/openid-configuration); an error, an
\* undecodable body or no jwks_uri returns the error
getJWKSDiscover(v) ==
    /\ jwks.pc = "run"
    /\ jwks.call[v].pc = "discover"
    /\ \E ok \in BOOLEAN :
          jwks' = [jwks EXCEPT !.call[v].pc = IF ok THEN "fetch" ELSE "returned",
                               !.call[v].err = ~ok,
                               !.call[v].requests = @ + 1]
    /\ UNCHANGED JwksFrame

\* http.Get(discovery.JwksUri) and the parse of the keys; the keys served at
\* that time are named by the time
getJWKSFetch(v) ==
    /\ jwks.pc = "run"
    /\ jwks.call[v].pc = "fetch"
    /\ \E ok \in BOOLEAN :
          jwks' = [jwks EXCEPT !.call[v].pc = IF ok THEN "store" ELSE "returned",
                               !.call[v].err = ~ok,
                               !.call[v].keys = IF ok THEN jwks.now ELSE @,
                               !.call[v].requests = @ + 1]
    /\ UNCHANGED JwksFrame

\* jwksCache[issuerUri] = &jwksData{keys, fetchedAt: time.Now()} under Lock
getJWKSStore(v) ==
    /\ jwks.pc = "run"
    /\ jwks.call[v].pc = "store"
    /\ LET iss == jwks.call[v].iss
       IN  jwks' = [jwks EXCEPT
              !.cache[iss] = [fetchedAt |-> jwks.now, keys |-> jwks.call[v].keys],
              !.fetched[iss] = jwks.now,
              !.call[v].pc = "returned"]
    /\ UNCHANGED JwksFrame

\* validateOIDCToken goes on with the keys or returns the error
getJWKSReturn(v) ==
    /\ jwks.pc = "run"
    /\ jwks.call[v].pc = "returned"
    /\ jwks' = [jwks EXCEPT !.call[v] = IdleValidation]
    /\ UNCHANGED JwksFrame

\* init(): jwksCache = make(map[string]*jwksData)
InitJwks ==
    /\ EarlyIdle /\ StoreIdle /\ TableIdle /\ ArtIdle /\ KeyIdle /\ PodIdle
    /\ jwks = [pc |-> "run", now |-> 0,
               cache |-> [i \in IssuerUris |-> NoJwks],
               fetched |-> [i \in IssuerUris |-> -1],
               call |-> [v \in Validators |-> IdleValidation]]

NextJwks ==
    \/ JwksTick
    \/ \E v \in Validators, iss \in IssuerUris : getJWKSRead(v, iss)
    \/ \E v \in Validators : getJWKSDiscover(v)
    \/ \E v \in Validators : getJWKSFetch(v)
    \/ \E v \in Validators : getJWKSStore(v)
    \/ \E v \in Validators : getJWKSReturn(v)

SpecJwks == InitJwks /\ [][NextJwks]_vars

\* ---------------------------------------------------------------------------
\* State endpoints: the executor's state JSON upload, PUT archive, GET state
\* ---------------------------------------------------------------------------

StoreFrame == <<earlyVars, jwks, jobTable, art, rkey, pod>>

\* A path is a sequence of segments; a segment is a name and its extension,
\* so that "<historyId>.tfstate" and "<historyId>.json" are different names.
Seg(name) == <<name, "">>

File(name, ext) == <<name, ext>>

OrgIds == {"o1"}

WsIds == {"w1", "w2"}

HistoryIds == {"h1", "h2"}

\* temp_archive joined with history, workspace and organization
ArchiveRows ==
    [a1 |-> [history |-> "h1", org |-> "o1", ws |-> "w1"],
     a2 |-> [history |-> "h2", org |-> "o1", ws |-> "w2"]]

ArchiveIds == DOMAIN ArchiveRows

StateBodies == 1..2

\* fmt.Sprintf("tfstate/%s/%s/state/state.json", job.OrganizationId, job.WorkspaceId)
StateJsonKey(org, ws) ==
    <<Seg("tfstate"), Seg(org), Seg(ws), Seg("state"), File("state", ".json")>>

\* the request path of GET .../organization/<org>/workspace/<ws>/state/<file>
\* after the "/tfstate/v1/" prefix is trimmed, split on "/"
StateUrl(org, ws, file) ==
    <<Seg("organization"), Seg(org), Seg("workspace"), Seg(ws), Seg("state"), file>>

\* fmt.Sprintf("tfstate/%s/%s/%s", parts[1], parts[3], parts[5])
getStateKey(parts) == <<Seg("tfstate"), parts[2], parts[4], parts[6]>>

\* fmt.Sprintf("tfstate/%s/%s/%s.tfstate", orgID, wsID, historyID)
HostedKey(org, ws, h) == <<Seg("tfstate"), Seg(org), Seg(ws), File(h, ".tfstate")>>

\* fmt.Sprintf("https://%s/tfstate/v1/organization/%s/workspace/%s/state/%s.json", ...)
OutputURL(org, ws, h) == StateUrl(org, ws, File(h, ".json"))

StoreUpload(objs, key, content) ==
    {o \in objs : o.key # key} \cup {[key |-> key, content |-> content]}

NoAnswer == [kind |-> "none", path |-> <<>>, status |-> 0, body |-> 0]

\* uploadStateAndOutput, the state JSON of an apply: ShowState, then UploadFile
\* (both errors are only logged)
uploadStateJson(org, ws) ==
    /\ store.pc = "run"
    /\ \E body \in StateBodies, ok \in BOOLEAN :
          store' = IF ok
                   THEN [store EXCEPT
                           !.objects = StoreUpload(@, StateJsonKey(org, ws), body),
                           !.written[ws] = body]
                   ELSE store
    /\ UNCHANGED StoreFrame

\* TerraformStateHandler.uploadHostedState
uploadHostedState(a) ==
    /\ store.pc = "run"
    /\ \E body \in StateBodies, ok \in BOOLEAN, updated \in BOOLEAN :
          LET row == ArchiveRows[a]
              answer(status) == [kind |-> "put", path |-> <<Seg("archive"), Seg(a)>>,
                                 status |-> status, body |-> 0]
          IN IF a \notin store.archives
             THEN store' = [store EXCEPT !.resp = answer(403)]
             ELSE IF ~ok
             THEN store' = [store EXCEPT !.resp = answer(500)]
             ELSE store' = [store EXCEPT
                     !.objects = StoreUpload(@, HostedKey(row.org, row.ws, row.history), body),
                     !.put[row.history] = body,
                     !.output[row.history] =
                         IF updated THEN OutputURL(row.org, row.ws, row.history) ELSE @,
                     !.archives = @ \ {a},
                     !.resp = answer(201)]
    /\ UNCHANGED StoreFrame

\* the paths a client asks for: the state JSON of a workspace, a history's
\* "<historyId>.tfstate", and the output URLs recorded on the history rows
Requests ==
    {StateUrl(org, ws, File("state", ".json")) : org \in OrgIds, ws \in WsIds}
        \cup {StateUrl(org, ws, File(h, ".tfstate")) :
                  org \in OrgIds, ws \in WsIds, h \in HistoryIds}
        \cup {store.output[h] : h \in {x \in HistoryIds : store.output[x] # <<>>}}

\* TerraformStateHandler.getState
getState(path) ==
    /\ store.pc = "run"
    /\ LET found == {o \in store.objects : o.key = getStateKey(path)}
       IN store' = [store EXCEPT !.resp =
             IF found = {}
             THEN [kind |-> "get", path |-> path, status |-> 404, body |-> 0]
             ELSE [kind |-> "get", path |-> path, status |-> 200,
                   body |-> (CHOOSE o \in found : TRUE).content]]
    /\ UNCHANGED StoreFrame

InitStore ==
    /\ EarlyIdle /\ JwksIdle /\ TableIdle /\ ArtIdle /\ KeyIdle /\ PodIdle
    /\ store = [pc |-> "run", objects |-> {},
                written |-> [ws \in WsIds |-> 0],
                put |-> [h \in HistoryIds |-> 0],
                output |-> [h \in HistoryIds |-> <<>>],
                archives |-> ArchiveIds,
                resp |-> NoAnswer]

NextStore ==
    \/ \E org \in OrgIds, ws \in WsIds : uploadStateJson(org, ws)
    \/ \E a \in ArchiveIds : uploadHostedState(a)
    \/ \E path \in Requests : getState(path)

SpecStore == InitStore /\ [][NextStore]_vars

\* ---------------------------------------------------------------------------
\* JobScheduler.pollJobs over a job table longer than its LIMIT, every
\* statement succeeding
\* ---------------------------------------------------------------------------

TableFrame == <<earlyVars, jwks, store, art, rkey, pod>>

TableJobs == 1..NumRows

RECURSIVE TableRows(_, _)
\* the rows of the SELECT from job id i on: status in (pending, queue), by id
TableRows(i, st) ==
    IF i > NumRows THEN <<>>
    ELSE IF st[i] \in {"pending", "queue"}
         THEN <<[id |-> i, status |-> st[i]]>> \o TableRows(i + 1, st)
         ELSE TableRows(i + 1, st)

\* ... WHERE j.status IN ('pending', 'queue') ORDER BY j.id ASC LIMIT 10
SelectRows(st) ==
    LET all == TableRows(1, st)
    IN  SubSeq(all, 1, IF Len(all) < Limit THEN Len(all) ELSE Limit)

TableNextRow == [jobTable EXCEPT !.rows = Tail(jobTable.rows),
                              !.pc = IF Len(jobTable.rows) > 1 THEN "row" ELSE "idle"]

\* a tick of the ticker in Start: the query of pollJobs
pollJobsSelect ==
    /\ jobTable.pc = "idle"
    /\ LET rows == SelectRows(jobTable.status)
       IN  jobTable' = [jobTable EXCEPT !.rows = rows,
                                  !.pc = IF rows # <<>> THEN "row" ELSE "idle"]
    /\ UNCHANGED TableFrame

\* a row read as pending: UPDATE job SET status = 'queue', then continue
pollJobsQueue ==
    /\ jobTable.pc = "row"
    /\ Head(jobTable.rows).status = "pending"
    /\ jobTable' = [TableNextRow EXCEPT !.status[Head(jobTable.rows).id] = "queue"]
    /\ UNCHANGED TableFrame

\* a row read as queue: no pending step: continue; else mark the step and the
\* job running and start the dispatch goroutine
pollJobsDispatch ==
    /\ jobTable.pc = "row"
    /\ Head(jobTable.rows).status = "queue"
    /\ LET j == Head(jobTable.rows).id
       IN  jobTable' = IF jobTable.pendingStep[j]
                    THEN [TableNextRow EXCEPT !.pendingStep[j] = FALSE,
                                              !.status[j] = "running",
                                              !.dispatched = @ \cup {j}]
                    ELSE TableNextRow
    /\ UNCHANGED TableFrame

\* the job jobTable: the jobs 1..k sit in queue without a pending step, the
\* others are pending or in queue with a pending step
InitTable ==
    /\ EarlyIdle /\ JwksIdle /\ StoreIdle /\ ArtIdle /\ KeyIdle /\ PodIdle
    /\ \E k \in 0..NumRows, st \in {"pending", "queue"}, one \in TableJobs :
          jobTable = [pc |-> "idle", rows |-> <<>>, dispatched |-> {},
                   status |-> [j \in TableJobs |->
                                  IF j <= k THEN "queue"
                                  ELSE IF j = one THEN "pending" ELSE st],
                   pendingStep |-> [j \in TableJobs |-> j > k]]

NextTable ==
    \/ pollJobsSelect
    \/ pollJobsQueue
    \/ pollJobsDispatch

\* the ticker keeps calling pollJobs and pollJobs runs to its end
TableFairness == WF_vars(NextTable)

SpecTable == InitTable /\ [][NextTable]_vars /\ TableFairness

\* ---------------------------------------------------------------------------
\* ProcessJob and the stored artifacts of a workspace: the prior state it
\* downloads, the objects and the history record it writes
\* ---------------------------------------------------------------------------

ArtFrame == <<earlyVars, jwks, store, jobTable, rkey, pod>>

\* A state is the sequence of the runs that changed it; the object
\* terraform.tfstate is absent or holds a state.
NoStateFile == [exists |-> FALSE, state |-> <<>>, whole |-> TRUE]

StateFile(state) == [exists |-> TRUE, state |-> state, whole |-> TRUE]

\* what the local backend of generateBackendOverride starts from
StateOf(file) == IF file.exists THEN file.state ELSE <<>>

DerivedFrom(new, old) ==
    Len(StateOf(old)) <= Len(StateOf(new))
        /\ SubSeq(StateOf(new), 1, Len(StateOf(old))) = StateOf(old)

ArtKinds == {"plan", "stateJson", "rawState", "tfoutput"}

IdleArt ==
    [pc |-> "idle", type |-> "terraformPlan", ignoreError |-> FALSE,
     download |-> "none", localState |-> NoStateFile, planFile |-> FALSE,
     err |-> FALSE, result |-> Nil]

\* a job is handed to ProcessJob
ArtProcessJob ==
    /\ art.pc = "idle"
    /\ art.runs < MaxRuns
    /\ \E type \in TerraformTypes, ignoreError \in BOOLEAN :
          art' = [art EXCEPT !.job = [IdleArt EXCEPT !.pc = "DownloadState",
                                                     !.type = type,
                                                     !.ignoreError = ignoreError],
                             !.pc = "run",
                             !.runs = @ + 1]
    /\ UNCHANGED ArtFrame

\* ProcessJob, 4: DownloadFile of the prior state. An error of any kind is
\* logged as "No existing state found"; os.Create and io.Copy may fail too,
\* and ProcessJob goes on in every case
ArtDownloadState ==
    /\ art.pc = "run" /\ art.job.pc = "DownloadState"
    /\ \E outcome \in {"ok", "absent", "error", "createFailed", "copyFailed"} :
          /\ outcome = "absent" => ~art.stored.exists
          /\ outcome \in {"ok", "createFailed", "copyFailed"} => art.stored.exists
          /\ art' = [art EXCEPT
                !.job.pc = "prepare",
                !.job.download = outcome,
                !.job.localState =
                    CASE outcome = "ok" -> art.stored
                      [] outcome = "copyFailed" -> [art.stored EXCEPT !.whole = FALSE]
                      [] OTHER -> NoStateFile]
    /\ UNCHANGED ArtFrame

\* executeTerraform up to the IaC command: Install, generateBackendOverride,
\* generateTerraformCredentials, the beforeInit scripts; an error returns
ArtPrepare ==
    /\ art.pc = "run" /\ art.job.pc = "prepare"
    /\ \E ok \in BOOLEAN :
          art' = IF ok THEN [art EXCEPT !.job.pc = "Execute"]
                 ELSE [art EXCEPT !.pc = "idle", !.job.pc = "returned", !.job.err = TRUE]
    /\ UNCHANGED ArtFrame

\* tfExecutor.Execute() against the local backend: an apply or destroy that
\* succeeds writes the state it derived from the local file, one that fails may
\* have written the state of what it did change; a plan that succeeds writes
\* terraform.tfplan; a truncated state file makes the command fail
ArtExecute ==
    /\ art.pc = "run" /\ art.job.pc = "Execute"
    /\ \E initOk \in BOOLEAN, exit \in ExitCodes, wrote \in BOOLEAN :
          /\ (~initOk => exit = 0 /\ ~wrote)
          /\ (~art.job.localState.whole => exit = 1 /\ ~wrote)
          /\ LET r == TfExecute(art.job.type, art.job.ignoreError, initOk, exit)
                 cmdOk == ~TfExecute(art.job.type, FALSE, initOk, exit).err
             IN  /\ (cmdOk => wrote)
                 /\ art' = [art EXCEPT
                       !.job.pc = IF r.err THEN "onFailure" ELSE "after",
                       !.job.err = r.err,
                       !.job.result = r.result,
                       !.job.planFile = cmdOk /\ art.job.type = "terraformPlan",
                       !.job.localState =
                           IF wrote /\ art.job.type # "terraformPlan"
                           THEN StateFile(Append(StateOf(@), art.runs))
                           ELSE @]
    /\ UNCHANGED ArtFrame

\* Service.saveOutput as SetCompleted and SetPending call it
saveOutput(objs, n, ok) == IF ok THEN [objs EXCEPT !["tfoutput"] = n] ELSE objs

\* the failure path that uploads the state before it reports
ArtOnFailure_upload ==
    /\ art.pc = "run" /\ art.job.pc = "onFailure"
    /\ \E ok \in BOOLEAN :
          art' = [art EXCEPT !.pc = "idle", !.job.pc = "returned",
                             !.stored = IF art.job.localState.exists
                                        THEN art.job.localState ELSE @,
                             !.objects = saveOutput(@, art.runs, ok)]
    /\ UNCHANGED ArtFrame

\* executeTerraform, err != nil: the onFailure scripts, SetCompleted(false)
\* with the buffer and the error, return err
ArtOnFailure ==
    /\ art.pc = "run" /\ art.job.pc = "onFailure"
    /\ \E ok \in BOOLEAN :
          art' = [art EXCEPT !.pc = "idle", !.job.pc = "returned",
                             !.objects = saveOutput(@, art.runs, ok)]
    /\ UNCHANGED ArtFrame

\* executeTerraform, err == nil: the after scripts, uploadStateAndOutput (every
\* error only logged), then SetPending or SetCompleted(true)
ArtUpload ==
    /\ art.pc = "run" /\ art.job.pc = "after"
    /\ \E okState \in BOOLEAN, okPlan \in BOOLEAN, okInstall \in BOOLEAN,
          okJson \in BOOLEAN, okRaw \in BOOLEAN, okOut \in BOOLEAN,
          okHistory \in BOOLEAN, okLog \in BOOLEAN :
          LET more == art.job.type \in {"terraformApply", "terraformDestroy"} /\ okInstall
              o1 == IF art.job.planFile /\ okPlan
                    THEN [art.objects EXCEPT !["plan"] = art.runs] ELSE art.objects
              o2 == IF more /\ okJson THEN [o1 EXCEPT !["stateJson"] = art.runs] ELSE o1
              o3 == IF more /\ okRaw THEN [o2 EXCEPT !["rawState"] = art.runs] ELSE o2
              o4 == IF more /\ okOut THEN [o3 EXCEPT !["tfoutput"] = art.runs] ELSE o3
          IN  art' = [art EXCEPT
                 !.pc = "idle", !.job.pc = "returned",
                 !.stored = IF art.job.localState.exists /\ okState
                            THEN art.job.localState ELSE @,
                 !.objects = saveOutput(o4, art.runs, okLog),
                 !.history = IF more /\ okHistory THEN @ \cup {art.runs} ELSE @]
    /\ UNCHANGED ArtFrame

InitArt ==
    /\ EarlyIdle /\ JwksIdle /\ StoreIdle /\ TableIdle /\ KeyIdle /\ PodIdle
    /\ art = [pc |-> "idle", runs |-> 0, stored |-> NoStateFile,
              objects |-> [k \in ArtKinds |-> 0], history |-> {},
              job |-> IdleArt]

NextArt ==
    \/ ArtProcessJob
    \/ ArtDownloadState
    \/ ArtPrepare
    \/ ArtExecute
    \/ ArtOnFailure
    \/ ArtUpload

SpecArt == InitArt /\ [][NextArt]_vars

\* ---------------------------------------------------------------------------
\* The Redis stream of a job: one RedisStreamer per step on the key jobId
\* ---------------------------------------------------------------------------

KeyFrame == <<earlyVars, jwks, store, jobTable, art, pod>>

\* lines a step writes before it closes its streamer
MaxLines == 2

\* r.client.Expire(ctx, r.jobId, 5*time.Minute), in minutes
streamTTL == 5

StepLine(s) == [stepId |-> s, done |-> FALSE]

StepSentinel(s) == [stepId |-> s, done |-> TRUE]

\* XADD on the key: appends, creating the stream when the key does not exist;
\* a failed command leaves the key alone
KeyXAdd(key, entry, ok) ==
    IF ok THEN [key EXCEPT !.exists = TRUE, !.entries = Append(@, entry)] ELSE key

\* ProcessJob of the next step: NewRedisStreamer(host, password, job.JobId,
\* job.StepId); XGROUP CREATE ... MKSTREAM creates the stream when it is missing
KeyNewRedisStreamer ==
    /\ rkey.pc = "run"
    /\ rkey.writer = 0
    /\ rkey.closed < NumSteps
    /\ \E ok \in BOOLEAN :
          rkey' = [rkey EXCEPT !.writer = rkey.closed + 1,
                               !.lines = 0,
                               !.key.exists = @ \/ ok]
    /\ UNCHANGED KeyFrame

\* RedisStreamer.Write of a complete line: one XADD
KeyWrite ==
    /\ rkey.pc = "run"
    /\ rkey.writer # 0
    /\ rkey.lines < MaxLines
    /\ \E ok \in BOOLEAN :
          rkey' = [rkey EXCEPT !.lines = @ + 1,
                               !.key = KeyXAdd(@, StepLine(rkey.writer), ok)]
    /\ UNCHANGED KeyFrame

\* RedisStreamer.Close as the deferred streamer.Close() runs it: the sentinel,
\* then EXPIRE (which does nothing on a missing key)
KeyClose ==
    /\ rkey.pc = "run"
    /\ rkey.writer # 0
    /\ \E ok \in BOOLEAN, okExpire \in BOOLEAN :
          LET k == KeyXAdd(rkey.key, StepSentinel(rkey.writer), ok)
          IN  rkey' = [rkey EXCEPT
                 !.writer = 0,
                 !.closed = rkey.writer,
                 !.key = IF okExpire /\ k.exists
                         THEN [k EXCEPT !.expireAt = rkey.now + streamTTL]
                         ELSE k]
    /\ UNCHANGED KeyFrame

\* time passes; Redis deletes the key once its TTL is over
KeyTick ==
    /\ rkey.pc = "run"
    /\ rkey.now < MaxTime
    /\ LET t == rkey.now + TickMinutes
           gone == rkey.key.expireAt # -1 /\ t >= rkey.key.expireAt
       IN  rkey' = [rkey EXCEPT
              !.now = t,
              !.key = IF gone THEN [exists |-> FALSE, entries |-> <<>>, expireAt |-> -1]
                      ELSE @,
              !.expiredWhileWriting = @ \/ (gone /\ rkey.writer # 0)]
    /\ UNCHANGED KeyFrame

InitKey ==
    /\ EarlyIdle /\ JwksIdle /\ StoreIdle /\ TableIdle /\ ArtIdle /\ PodIdle
    /\ rkey = [pc |-> "run", now |-> 0, writer |-> 0, closed |-> 0, lines |-> 0,
               key |-> [exists |-> FALSE, entries |-> <<>>, expireAt |-> -1],
               expiredWhileWriting |-> FALSE]

NextKey ==
    \/ KeyNewRedisStreamer
    \/ KeyWrite
    \/ KeyClose
    \/ KeyTick

SpecKey == InitKey /\ [][NextKey]_vars

\* ---------------------------------------------------------------------------
\* The dispatch payload of an ephemeral worker: json.Marshal of the
\* ExecutionContext, base64 in EphemeralJobData, json.Unmarshal into a
\* TerraformJob in LoadConfig
\* ---------------------------------------------------------------------------

PodFrame == <<earlyVars, jwks, store, jobTable, art, rkey>>

\* A JSON value is its kind and its content; strings, numbers and objects are
\* drawn from small sets and named by a number.
JsonValue(kind, v) == [t |-> kind, v |-> v]

\* the accepted job types of ProcessJob, by number; 0 is the empty string
TypeNames == <<"terraformPlan", "terraformApply", "terraformDestroy", "customScripts", "approval">>

\* json.Marshal(execCtx): the fields of ExecutionContext under their json tags
MarshalExecutionContext(ctx) ==
    [organizationId       |-> JsonValue("string", ctx.OrganizationID),
     workspaceId          |-> JsonValue("string", ctx.WorkspaceID),
     jobId                |-> JsonValue("number", ctx.JobID),
     stepId               |-> JsonValue("string", ctx.StepID),
     source               |-> JsonValue("string", ctx.Source),
     branch               |-> JsonValue("string", ctx.Branch),
     refresh              |-> JsonValue("bool", ctx.Refresh),
     iacType              |-> JsonValue("string", ctx.IacType),
     tcl                  |-> JsonValue("string", ctx.TCL),
     environmentVariables |-> JsonValue("object", ctx.EnvVars),
     variables            |-> JsonValue("object", ctx.TFVars)]

\* the json tags of TerraformJob and the kind of value each field takes
TerraformJobTags ==
    [type                 |-> "string",
     organizationId       |-> "string",
     workspaceId          |-> "string",
     jobId                |-> "string",
     stepId               |-> "string",
     source               |-> "string",
     branch               |-> "string",
     refresh              |-> "bool",
     ignoreError          |-> "bool",
     environmentVariables |-> "object",
     variables            |-> "object"]

\* json.Unmarshal into one field: a key that is missing leaves the zero value,
\* a value of another kind leaves it too and is an UnmarshalTypeError
UnmarshalField(doc, tag) ==
    IF tag \in DOMAIN doc /\ doc[tag].t = TerraformJobTags[tag] THEN doc[tag].v ELSE 0

UnmarshalTypeError(doc) ==
    \E tag \in DOMAIN doc \cap DOMAIN TerraformJobTags : doc[tag].t # TerraformJobTags[tag]

\* json.Unmarshal(decodedData, &job); keys TerraformJob does not have are dropped
UnmarshalTerraformJob(doc) ==
    [Type           |-> UnmarshalField(doc, "type"),
     OrganizationId |-> UnmarshalField(doc, "organizationId"),
     WorkspaceId    |-> UnmarshalField(doc, "workspaceId"),
     JobId          |-> UnmarshalField(doc, "jobId"),
     StepId         |-> UnmarshalField(doc, "stepId"),
     Source         |-> UnmarshalField(doc, "source"),
     Branch         |-> UnmarshalField(doc, "branch"),
     Refresh        |-> UnmarshalField(doc, "refresh"),
     EnvironmentVariables |-> UnmarshalField(doc, "environmentVariables"),
     Variables      |-> UnmarshalField(doc, "variables")]

NoJob == UnmarshalTerraformJob([none |-> JsonValue("null", 0)])

NoData == [b64 |-> FALSE, doc |-> [none |-> JsonValue("null", 0)]]

\* EphemeralExecutor.Execute: json.Marshal(execCtx); the pod gets
\* EphemeralJobData = base64(execData)
EphemeralExecute ==
    /\ pod.pc = "dispatch"
    /\ pod' = [pod EXCEPT !.pc = "pod",
                          !.by = "scheduler",
                          !.data = [b64 |-> TRUE, doc |-> MarshalExecutionContext(pod.ctx)]]
    /\ UNCHANGED PodFrame

\* a pod started by another producer (the API sets EPHEMERAL_JOB_DATA on the
\* jobs it creates): a document with the tags of TerraformJob, or a value that
\* is not base64
OtherEphemeralJobData ==
    /\ pod.pc = "dispatch"
    /\ \E b64 \in BOOLEAN, type \in 0..(Len(TypeNames) + 1) :
          pod' = [pod EXCEPT
             !.pc = "pod",
             !.by = "other",
             !.data = [b64 |-> b64,
                       doc |-> [type           |-> JsonValue("string", type),
                                organizationId |-> JsonValue("string", pod.ctx.OrganizationID),
                                workspaceId    |-> JsonValue("string", pod.ctx.WorkspaceID),
                                jobId          |-> JsonValue("string", pod.ctx.JobID),
                                stepId         |-> JsonValue("string", pod.ctx.StepID)]]]
    /\ UNCHANGED PodFrame

\* LoadConfig in BATCH mode: base64 decode, json.Unmarshal; an error of either
\* ends the worker before it has a job
LoadConfig ==
    /\ pod.pc = "pod"
    /\ pod' = IF ~pod.data.b64 \/ UnmarshalTypeError(pod.data.doc)
              THEN [pod EXCEPT !.pc = "exited", !.err = TRUE]
              ELSE [pod EXCEPT !.pc = "loaded",
                               !.job = UnmarshalTerraformJob(pod.data.doc)]
    /\ UNCHANGED PodFrame

\* ProcessJob of the worker: the switch on job.Type
PodProcessJob ==
    /\ pod.pc = "loaded"
    /\ pod' = [pod EXCEPT !.pc = "exited",
                          !.accepted = pod.job.Type \in 1..Len(TypeNames),
                          !.err = pod.job.Type \notin 1..Len(TypeNames)]
    /\ UNCHANGED PodFrame

\* the ExecutionContext pollJobs built for a (job, step)
InitPod ==
    /\ EarlyIdle /\ JwksIdle /\ StoreIdle /\ TableIdle /\ ArtIdle /\ KeyIdle
    /\ \E org \in 1..NumIds, ws \in 1..NumIds, j \in 1..NumIds, s \in 1..NumIds,
          src \in 0..1, br \in 0..1, r \in BOOLEAN, ev \in 0..1, tv \in 0..1 :
          pod = [pc |-> "dispatch",
                 ctx |-> [OrganizationID |-> org, WorkspaceID |-> ws, JobID |-> j,
                          StepID |-> s, Source |-> src, Branch |-> br,
                          Refresh |-> IF r THEN 1 ELSE 0, IacType |-> 1, TCL |-> 1,
                          EnvVars |-> ev, TFVars |-> tv],
                 by |-> "none", data |-> NoData, job |-> NoJob,
                 accepted |-> FALSE, err |-> FALSE]

NextPod ==
    \/ EphemeralExecute
    \/ OtherEphemeralJobData
    \/ LoadConfig
    \/ PodProcessJob

SpecPod == InitPod /\ [][NextPod]_vars

\* ------------------------------------------------------------------------
\* Properties of the job pipeline
\* ------------------------------------------------------------------------
\* ProcessJob of job j has returned normally (no panic unwound it)
Returned(j) == run[j].entered /\ run[j].returned /\ ~run[j].panicked

\* the IaC init or the IaC command of the job type failed
IaCFailed(j) ==
    \/ ~run[j].initOk
    \/ payload.Type = "terraformPlan" /\ run[j].exit = 1
    \/ payload.Type \in {"terraformApply", "terraformDestroy"} /\ run[j].exit \in {1, 2}

\* C1: every Plan/Apply/Destroy job handed to ProcessJob gets exactly one
\* SetRunning and exactly one terminal report (SetCompleted or SetPending),
\* whichever way ProcessJob returns.
C1_OneRunningOneTerminal ==
    \A j \in Jobs :
        (Returned(j) /\ payload.Type \in TerraformTypes)
            => /\ run[j].nSetRunning = 1
               /\ run[j].nTerminal = 1
               /\ run[j].terminal.kind \in {"SetCompleted", "SetPending"}

\* C2: once ProcessJob has returned or unwound, the temp directory that
\* CloneWorkspace made for the job is gone.
C2_NoTempDirAfterReturn ==
    \A j \in Jobs : (run[j].entered /\ run[j].returned) => ~run[j].tmp

\* C3: pollJobs dispatches each (job, step) at most once.
C3_DispatchedAtMostOnce ==
    \A j \in Jobs, s \in Steps : dispatched[j][s] <= 1

\* C4: a running job goes back to queue or pending by nothing but the job
\* write of the terminal SetPending report of its dispatched step; while the
\* dispatch is in progress no scheduler update and no other report does it.
C4_RunningNotBackToQueue ==
    [][ \A j \in Jobs :
          (jobStatus[j] = "running" /\ jobStatus'[j] \in {"queue", "pending"})
             => /\ run[j].pc = "report.job"
                /\ run[j].rep.kind = "SetPending"
                /\ run'[j].pc = "defers" ]_vars

W_C4 ==
    \E j \in Jobs :
        /\ run[j].pc = "report.job"
        /\ run[j].rep.kind = "SetCompleted"
        /\ jobStatus[j] = "running"
        /\ dispatched[j][run[j].step] = 2

\* C5: a step's status changes only pending -> running and
\* running -> completed | failed | pending; completed and failed are final.
C5_StepTransitions ==
    [][ \A j \in Jobs, s \in Steps :
          stepStatus'[j][s] # stepStatus[j][s]
             => \/ stepStatus[j][s] = "pending" /\ stepStatus'[j][s] = "running"
                \/ /\ stepStatus[j][s] = "running"
                   /\ stepStatus'[j][s] \in {"completed", "failed", "pending"} ]_vars

W_C5 ==
    \E j \in Jobs, s \in Steps :
        /\ dispatched[j][s] = 2
        /\ run[j].step = s
        /\ run[j].pc = "done"
        /\ stepStatus[j][s] \in {"completed", "failed"}

\* C9: a successful plan ends with SetPending exactly when plan exited 2 and
\* with SetCompleted(true) otherwise; a successful apply or destroy always ends
\* with SetCompleted(true).
C9_PlanPendingIffExit2 ==
    \A j \in Jobs :
        (Returned(j) /\ payload.Type \in TerraformTypes /\ ~run[j].err
                     /\ run[j].exit # -1)
            => /\ run[j].nTerminal = 1
               /\ IF payload.Type = "terraformPlan" /\ run[j].exit = 2
                  THEN run[j].terminal = [kind |-> "SetPending", success |-> TRUE]
                  ELSE run[j].terminal = SetCompletedRep(TRUE)

W_C9 ==
    \E j \in Jobs :
        /\ Returned(j) /\ ~run[j].err
        /\ payload.Type = "terraformPlan" /\ run[j].exit = 2
        /\ run[j].terminal.kind = "SetPending"
        /\ stepStatus[j][run[j].step] = "pending"

\* C10: with ignoreError a failure of init, plan, apply or destroy ends in
\* SetCompleted(true); without it the same failure ends in SetCompleted(false).
C10_IgnoreErrorCoerces ==
    \A j \in Jobs :
        (Returned(j) /\ payload.Type \in TerraformTypes /\ run[j].nTerminal > 0
                     /\ IaCFailed(j))
            => run[j].terminal = SetCompletedRep(payload.IgnoreError)

\* C11: in online mode a panic in ProcessJob never ends the process: the job
\* goroutine recovers it, issues one SetCompleted(false) for the job, and the
\* goroutine ends with the server still up.
C11_OnlinePanicRecovered ==
    executorMode = "ONLINE" =>
        \A j \in Jobs :
            /\ run[j].pc # "crashed"
            /\ (run[j].panicked /\ run[j].pc = "done") => run[j].nRecover = 1
            /\ ~run[j].panicked => run[j].nRecover = 0

W_C11 ==
    \E j \in Jobs :
        /\ executorMode = "ONLINE"
        /\ run[j].panicked
        /\ run[j].pc = "done"
        /\ run[j].nRecover = 1
        /\ jobStatus[j] = "failed"
        /\ stepStatus[j][run[j].step] = "failed"

\* C12: a batch worker calls ProcessJob once and, whether ProcessJob returns
\* an error or not, AdjustAndExecute and Start return: the process ends with
\* exit status 0.
C12_BatchExitsZero ==
    executorMode = "BATCH" =>
        \A j \in Jobs :
            /\ Returned(j) => run[j].exitStatus = 0 /\ run[j].pc = "done"
            /\ run[j].exitStatus # -1 => run[j].entered /\ run[j].returned
            /\ run[j].nSetRunning <= 1

W_C12 ==
    \E j \in Jobs :
        /\ executorMode = "BATCH"
        /\ Returned(j)
        /\ run[j].err
        /\ run[j].terminal = SetCompletedRep(FALSE)
        /\ run[j].exitStatus = 0

\* C13: the Apply step reads the storage key the Plan step of the job wrote,
\* and applies the plan that step uploaded.
C13_ApplyReadsPlanKey ==
    flow.pc = "applied" =>
        /\ flow.readKey = PlanKey(StepJob("terraformPlan", flow.planStep))
        /\ \A o \in objects :
              o.key = PlanKey(StepJob("terraformPlan", flow.planStep))
                 => flow.applied = o.content

\* C14: with several jobs in one executor process, no job's IaC command runs
\* while another job is between truncating and rewriting the credentials
\* file, and no command reads the file truncated.
C14_CredentialsConfined ==
    \A a \in Workers :
        /\ worker[a].read # "truncated"
        /\ \A b \in Workers \ {a} :
              ~(worker[a].pc = "running" /\ worker[b].pc = "writing")

\* C15: every Install call that returns success returns the path of a
\* completely installed executable, never one that another caller is still
\* extracting.
C15_InstallConverges ==
    \A c \in Callers :
        (inst[c].pc = "returned" /\ ~inst[c].err) => inst[c].handed = "complete"

\* C16: Install with a version that is not valid semver fails before any
\* download, for both flavors, and leaves no cache entry for the version.
C16_InvalidVersionFailsFast ==
    \A c \in Callers :
        (inst[c].pc # "idle" /\ ~NewVersion(inst[c].ver)) =>
            /\ inst[c].downloads = 0
            /\ inst[c].pc = "returned" => inst[c].err
            /\ cache[inst[c].ver] = NoEntry

\* C18: for every secret under which GenerateTerrakubeToken succeeds, the
\* minted token is accepted by ValidateToken under the same secret and by
\* the API AuthMiddleware configured with the same secret.
C18_MintedTokenAccepted ==
    /\ auth.pc \in {"validated", "servedMinted"} => auth.valid
    /\ auth.pc = "servedMinted" => auth.status = 200 /\ auth.reached

\* a presented token is valid for its issuer: signed by the issuer's key and
\* not expired
ValidForIssuer(t) ==
    /\ t.parts = 3
    /\ ~Expired(t)
    /\ t.sig = Hmac(SignerKey(IF t.iss = "TerrakubeInternal" THEN "internal"
                               ELSE IF t.iss = "Terrakube" THEN "pat" ELSE "oidc"),
                     SigningInput(t))

\* C19: a request to a non-public path whose bearer token is invalid for its
\* issuer is answered 401 and never reaches the handler, whatever the issuer.
C19_InvalidTokenRejected ==
    (auth.pc = "served" /\ ~auth.req.public /\ auth.req.header = "bearer"
        /\ ~ValidForIssuer(auth.req.token))
    => (auth.status = 401 /\ ~auth.reached)

\* the request carries no valid Bearer token
NoValidBearer ==
    registry.header # "bearer" \/ ~ValidForIssuer(registry.token)

ZipDownload == "/terraform/modules/v1/download/:org/:name/:provider/:version/module.zip"

\* C20: with AuthValidationType set to a value other than LOCAL, every
\* registry endpoint except the module zip download answers a request without
\* a valid Bearer token with 401 before running its handler.
C20_AllButZipRequireBearer ==
    (registry.pc = "served" /\ cfg.AuthValidationType \notin {"", "LOCAL"}
        /\ registry.route # ZipDownload /\ NoValidBearer)
    => (registry.status = 401 /\ ~registry.ran)

\* C20, amended: the same for the endpoints of the protected group (module
\* versions, module download, readme, provider versions, provider download);
\* the health routes, the service discovery and the zip download are public
\* and run their handler.
C20_ProtectedRequireBearer ==
    registry.pc = "served" =>
        /\ (cfg.AuthValidationType \notin {"", "LOCAL"}
               /\ registry.route \in ProtectedRoutes /\ NoValidBearer)
           => (registry.status = 401 /\ ~registry.ran)
        /\ registry.route \in EngineRoutes => registry.ran

W_C20 ==
    /\ registry.pc = "served"
    /\ cfg.AuthValidationType = "DEX"
    /\ registry.route = "/terraform/modules/v1/:org/:name/:provider/versions"
    /\ registry.header = "bearer"
    /\ ~ValidForIssuer(registry.token)
    /\ registry.status = 401 /\ ~registry.ran

\* the map of a category in the context that was built
Carried(category) == IF category = "ENV" THEN execCtx.EnvVars ELSE execCtx.TFVars

Defined(table, category, k) ==
    \E r \in table : r.scope = "mine" /\ r.category = category /\ r.key = k

Positions(ev) == { k \in 1..Len(tf.trace) : tf.trace[k].ev = ev }
Ran(ev) == Positions(ev) # {}

\* ExecutePhase(phase) was called
PhaseCalled(phase) == \E k \in Positions("phase") : tf.trace[k].phase = phase

\* the commands the phase "before" selects
BeforeCommands ==
    { i \in 1..Len(tf.CommandList) :
         tf.CommandList[i].Before /\ ~tf.CommandList[i].BeforeInit }

\* C22: in a Plan/Apply/Destroy job whose IaC command started, every command
\* flagged before and not beforeInit ran after the IaC init and before the
\* IaC command, and no command flagged beforeInit ran in that phase.
C22_BeforeBetweenInitAndMain ==
    (tf.pc # "idle" /\ Ran("main")) =>
        /\ \A i \in BeforeCommands :
              \E k \in Positions("script") :
                 /\ tf.trace[k].phase = "before" /\ tf.trace[k].cmd = i
                 /\ \A n \in Positions("init") : n < k
                 /\ \A m \in Positions("main") : k < m
        /\ \A k \in Positions("script") :
              tf.trace[k].phase = "before" => ~tf.CommandList[tf.trace[k].cmd].BeforeInit

\* the IaC command ended in success: it did not fail, or IgnoreError coerced
\* its failure
IaCSuccess ==
    \/ tf.IgnoreError
    \/ tf.Type = "terraformPlan" /\ tf.exit \in {0, 2}
    \/ tf.Type \in {"terraformApply", "terraformDestroy"} /\ tf.exit = 0

\* C24: once executeTerraform has returned from a call that ran the IaC
\* command, exactly one of the phases after and onFailure was executed, after
\* iff the IaC result is success (a failure coerced by IgnoreError included)
\* and onFailure iff it is failure; the terminal report is failed iff the IaC
\* result is failure, whatever the scripts of the phase did, and on success
\* the uploads were made.
C24_AfterXorOnFailure ==
    (tf.pc = "returned" /\ Ran("main")) =>
        /\ PhaseCalled("after") <=> IaCSuccess
        /\ PhaseCalled("onFailure") <=> ~IaCSuccess
        /\ Cardinality(Positions("phase")) = 2
        /\ tf.rep # NoReport
        /\ (ReportStatus(tf.rep) = "failed") <=> ~IaCSuccess
        /\ IaCSuccess => Ran("upload")

\* a plan whose failure IgnoreError coerced ran its after phase, a script of
\* the phase failed, and the uploads and the completed report followed
W_C24 ==
    /\ tf.pc = "returned"
    /\ tf.Type = "terraformPlan" /\ tf.IgnoreError /\ tf.exit = 1
    /\ PhaseCalled("after")
    /\ tf.scriptErr
    /\ Ran("upload")
    /\ ReportStatus(tf.rep) = "completed"

\* the job was reported failed: by a SetCompleted(false) of ProcessJob, by the
\* recover() handler of the online server, or by the step and job updates the
\* dispatch goroutine of the scheduler issues for an inline call's error
ReportedFailed(j) ==
    \/ run[j].terminal = SetCompletedRep(FALSE)
    \/ run[j].nRecover > 0
    \/ executorMode = "INLINE" /\ run[j].err

\* C23: a job whose beforeInit script failed is aborted and reported failed:
\* once its dispatch has ended, the IaC init and command did not run and a
\* failed status was reported for it.
C23_BeforeInitFailureReported ==
    \A j \in Jobs :
        (run[j].aborted /\ run[j].pc = "done") =>
            /\ run[j].exit = -1
            /\ run[j].result = Nil
            /\ ReportedFailed(j)

\* C25: the absence of a prior artifact never fails a job: whatever the
\* storage backend answers for the prior state and for the saved plan of a
\* terraformApply job, ProcessJob goes on to run the job (the download of the
\* saved plan returns and the switch on the job type is reached).
C25_MissingArtifactNeverFails ==
    [][ \A j \in Jobs :
          /\ (run[j].pc = "DownloadState" /\ run'[j] # run[j])
                => run'[j].pc \in {"downloadPlanForApply", "switch"}
          /\ (run[j].pc = "downloadPlanForApply" /\ run'[j] # run[j])
                => (run'[j].pc = "switch" /\ ~run'[j].panicked) ]_vars

\* the dispatch goroutine of job j is started by this step
Dispatches(j) == run[j].pc # "execute" /\ run'[j].pc = "execute"

\* C26: a row read as pending is moved to queue at most, and the tick goes on
\* to its next row without dispatching it; a job is dispatched only from a
\* row read as queue for which a pending step was found, and when the
\* dispatch goroutine starts, before the executor call, the step and the job
\* are written running.
C26_DispatchOnlyFromQueue ==
    [][ \A j \in Jobs :
          /\ ( /\ sched.pc = "row"
               /\ Head(sched.rows) = [id |-> j, status |-> "pending"]
               /\ sched' # sched )
                => /\ jobStatus'[j] \in {jobStatus[j], "queue"}
                   /\ stepStatus' = stepStatus
                   /\ ~Dispatches(j)
                   /\ dispatched' = dispatched
                   /\ sched' = NextRow
          /\ Dispatches(j)
                => /\ sched.pc = "markJob"
                   /\ Head(sched.rows) = [id |-> j, status |-> "queue"]
                   /\ sched.step \in Steps
                   /\ run'[j].step = sched.step
                   /\ stepStatus'[j][sched.step] = "running"
                   /\ jobStatus'[j] = "running"
                   /\ ~run'[j].entered ]_vars

\* a job was read as pending, moved to queue, read as queue in a later tick
\* and dispatched: its goroutine is about to call the executor
W_C26 ==
    \E j \in Jobs :
        /\ run[j].pc = "execute"
        /\ dispatched[j][run[j].step] = 1
        /\ jobStatus[j] = "running"
        /\ stepStatus[j][run[j].step] = "running"

\* the scheduler writes failed for job j in this step: the updates of the
\* dispatch goroutine after an error of Execute
SchedulerFails(j) ==
    /\ run[j].pc \in {"dispatchFail.step", "dispatchFail.job"}
    /\ \/ jobStatus'[j] = "failed" /\ jobStatus[j] # "failed"
       \/ \E s \in Steps : stepStatus'[j][s] = "failed" /\ stepStatus[j][s] # "failed"

\* C27: once Execute has returned an error for a dispatched (job, step), the
\* step and the job are eventually recorded failed; and the scheduler writes
\* failed only after Execute returned an error: not for a job an online
\* executor or a batch worker accepted, not for an inline ProcessJob that
\* returned nil.
C27_ExecuteErrorRecorded ==
    /\ \A j \in Jobs, s \in Steps :
          (run[j].pc = "dispatchFail.step" /\ run[j].step = s)
             ~> (stepStatus[j][s] = "failed" /\ jobStatus[j] = "failed")
    /\ [][ \A j \in Jobs :
             SchedulerFails(j) =>
                IF executorMode = "INLINE" THEN run[j].err ELSE ~run[j].entered ]_vars

\* ------------------------------------------------------------------------
\* Properties of CloneRepository
\* ------------------------------------------------------------------------
\* the directory CloneRepository returns for the temp directory k
ReturnedFor(k) ==
    IF clone.folder # <<>> THEN Join(TempDirOf(k), clone.folder) ELSE TempDirOf(k)

\* C29: CloneRepository makes at most two clone attempts, the first for the
\* tag <tagPrefix>v<version> and the second, made only after the first
\* failed, for <tagPrefix><version>; it returns the directory of the first
\* attempt that succeeded, and an error when none did.
C29_TagOrderFirstSuccessWins ==
    LET a == clone.attempts
    IN  /\ Len(a) <= 2
        /\ Len(a) >= 1 => a[1].tag = FirstTag(clone.tagPrefix, clone.version)
        /\ Len(a) = 2 => /\ ~a[1].ok
                         /\ a[2].tag = SecondTag(clone.tagPrefix, clone.version)
        /\ clone.pc \in {"returned", "done"} =>
              IF clone.err
              THEN \A i \in 1..Len(a) : ~a[i].ok
              ELSE \E i \in 1..Len(a) :
                      /\ a[i].ok
                      /\ \A k \in 1..(i - 1) : ~a[k].ok
                      /\ clone.dir = ReturnedFor(a[i].dir)

\* the tag with v failed, the tag without it succeeded, and the call returned
\* the folder m of the second temp directory
W_C29 ==
    /\ clone.pc = "done"
    /\ ~clone.err
    /\ Len(clone.attempts) = 2
    /\ clone.attempts[1].tag = <<"p", "/", "v", "1">>
    /\ clone.attempts[2].tag = <<"p", "/", "1">>
    /\ clone.attempts[2].ok
    /\ clone.dir = <<"/", "t", "2", "/", "m">>

\* C30: every clone attempt runs in a temp directory of its own that is
\* empty, and once CloneRepository has returned an error no temp directory it
\* made is left.
C30_FreshDirsNoLeak ==
    /\ \A i \in 1..Len(clone.attempts) :
          /\ clone.attempts[i].empty
          /\ \A k \in 1..(i - 1) : clone.attempts[k].dir # clone.attempts[i].dir
    /\ (clone.pc = "done" /\ clone.err) => clone.exists = {}

\* the private-key file named in GIT_SSH_COMMAND, <first tempDir>/.ssh/<keyName>:
\* setupSSHEnv wrote it and its directory has not been removed
KeyFileExists == clone.sshCleanup /\ ".ssh" \in clone.content[1]

\* C39: for an SSH vcsType with a non-empty key, at the start of every git
\* clone attempt (the retry included) the key file named in GIT_SSH_COMMAND
\* exists and the clone destination is an empty directory, and once the clone
\* function has returned the key file no longer exists.
C39_KeyPresentDestinationEmpty ==
    (clone.pc # "idle" /\ UsesSSHKey) =>
        /\ clone.pc \in {"first", "second"} =>
              /\ KeyFileExists
              /\ clone.tempDir # 0 /\ clone.content[clone.tempDir] = {}
        /\ clone.pc = "done" => ~KeyFileExists

\* ------------------------------------------------------------------------
\* Properties of the JWKS cache
\* ------------------------------------------------------------------------
\* validation v starts in this step: getJWKS reads the cache
Starts(v) == jwks.call[v].pc = "idle" /\ jwks'.call[v].pc # "idle"

\* C31: a validation that starts less than 10 minutes after the last
\* successful JWKS fetch of its issuer returns the keys of that fetch without
\* a discovery or JWKS request, a validation that starts later (or before any
\* fetch) goes to the discovery request; and only a validation that found no
\* fresh keys makes requests.
C31_FreshKeysNotRefetched ==
    [][ \A v \in Validators :
          /\ Starts(v) =>
                LET iss == jwks'.call[v].iss
                    last == jwks.fetched[iss]
                IN  IF last # -1 /\ jwks.now - last < jwksCacheTTL
                    THEN /\ jwks'.call[v].pc = "returned"
                         /\ jwks'.call[v].keys = jwks.cache[iss].keys
                         /\ jwks.cache[iss].fetchedAt = last
                         /\ jwks'.call[v].requests = 0
                    ELSE jwks'.call[v].pc = "discover"
          /\ jwks'.call[v].requests > 0 => ~jwks'.call[v].hit ]_vars

\* a validation got the keys fetched five minutes earlier without a request,
\* while a validation of the other issuer is fetching
W_C31 ==
    /\ jwks.pc = "run"
    /\ \E v \in Validators, w \in Validators :
          /\ jwks.call[v].pc = "returned" /\ jwks.call[v].hit
          /\ jwks.call[v].iss = "a"
          /\ jwks.call[v].start = jwks.fetched["a"] + 5
          /\ jwks.call[v].requests = 0
          /\ jwks.call[w].pc = "fetch" /\ jwks.call[w].iss = "b"

\* a validation that started ten minutes after the fetch is refetching
W_C31_Refetch ==
    /\ jwks.pc = "run"
    /\ \E v \in Validators :
          /\ jwks.call[v].pc = "fetch"
          /\ jwks.fetched[jwks.call[v].iss] # -1
          /\ jwks.call[v].start = jwks.fetched[jwks.call[v].iss] + 10

\* ------------------------------------------------------------------------
\* Properties of the state endpoints, the job table, the stored artifacts,
\* the stream key, the dispatch payload and the terminal report
\* ------------------------------------------------------------------------
\* C32: read-after-write across the state endpoints. A GET of a workspace's
\* state/state.json answers 200 with the state JSON the executor last uploaded
\* for it, and a GET of the output URL recorded on a history row answers 200
\* with the bytes PUT to its archive.
C32_ReadAfterWrite ==
    store.pc = "run" /\ store.resp.kind = "get" =>
        /\ \A org \in OrgIds, ws \in WsIds :
              (store.resp.path = StateUrl(org, ws, File("state", ".json"))
                  /\ store.written[ws] # 0)
                  => store.resp.status = 200 /\ store.resp.body = store.written[ws]
        /\ \A h \in HistoryIds :
              (store.output[h] # <<>> /\ store.resp.path = store.output[h])
                  => store.resp.status = 200 /\ store.resp.body = store.put[h]

\* C33: under a fair scheduler loop and a working database every job in status
\* pending or queue that has a pending step is eventually dispatched, whatever
\* other jobs are in the table.
C33_PendingStepEventuallyDispatched ==
    \A j \in TableJobs :
        (jobTable.pc \in {"idle", "row"}
            /\ jobTable.status[j] \in {"pending", "queue"} /\ jobTable.pendingStep[j])
            ~> j \in jobTable.dispatched

\* C34: the scheduler never leaves a step in status running without having
\* dispatched it: a step marked running that has not been handed to the
\* executor backend is dispatched in the same tick or by a later one, also
\* when the job's own UPDATE to running fails.
C34_RunningStepIsDispatched ==
    \A j \in Jobs, s \in Steps :
        (stepStatus[j][s] = "running" /\ dispatched[j][s] = 0)
            ~> dispatched[j][s] > 0

\* C35: a run never replaces the stored workspace state with a state that was
\* not derived from it; when the download of the prior state failed for a
\* reason other than the object being absent, the job does not upload
\* terraform.tfstate over the stored object.
C35_StoredStateOnlyExtended ==
    [][ art.pc = "run" /\ art'.stored # art.stored =>
           /\ DerivedFrom(art'.stored, art.stored)
           /\ (art.stored.exists => art.job.download # "error") ]_vars

\* the run's IaC command has failed and was not coerced by ignoreError
CommandFailed(job) == job.err /\ job.result = ExecutionResult(FALSE, 1)

\* C36: when the IaC command of a Plan/Apply/Destroy job fails and is not
\* coerced by ignoreError, no state, plan, state-json or raw-state object is
\* uploaded and no history record is created; only the step output log is
\* written, by SetCompleted.
C36_FailureLeavesArtifacts ==
    [][ art.pc = "run" /\ art.job.pc \in {"Execute", "onFailure"}
            /\ CommandFailed(art'.job) =>
           /\ art'.stored = art.stored
           /\ art'.history = art.history
           /\ \A k \in ArtKinds \ {"tfoutput"} : art'.objects[k] = art.objects[k]
           /\ art'.objects["tfoutput"] \in {art.objects["tfoutput"], art.runs}
           /\ (art.job.pc = "Execute" => art'.objects = art.objects) ]_vars

\* a failed apply has returned: it had changed its local state file, the
\* stored state is still the one of the earlier run, the log was written
W_C36 ==
    /\ art.pc = "idle" /\ art.job.pc = "returned" /\ CommandFailed(art.job)
    /\ art.stored.exists
    /\ art.job.localState.exists /\ art.job.localState # art.stored
    /\ art.objects["tfoutput"] = art.runs
    /\ art.history # {}

\* C37: in the Redis stream of a job the sentinel entry done=true is the last
\* entry of the stream, and the stream is not expired while a step of the job
\* is still writing, also when the job runs several steps one after another.
C37_SentinelLastStreamKept ==
    rkey.pc = "run" =>
        /\ \A i \in 1..Len(rkey.key.entries) :
              rkey.key.entries[i].done => i = Len(rkey.key.entries)
        /\ ~rkey.expiredWhileWriting

\* C38: the ExecutionContext the scheduler serializes for an ephemeral worker
\* decodes in batch mode into a job with the same jobId, stepId,
\* organizationId, workspaceId, source, branch and variables and a job type
\* that ProcessJob accepts: the worker executes the dispatched step.
C38_DispatchPayloadRoundTrip ==
    pod.pc = "exited" /\ pod.by = "scheduler" =>
        /\ ~pod.err /\ pod.accepted
        /\ pod.job.JobId = pod.ctx.JobID
        /\ pod.job.StepId = pod.ctx.StepID
        /\ pod.job.OrganizationId = pod.ctx.OrganizationID
        /\ pod.job.WorkspaceId = pod.ctx.WorkspaceID
        /\ pod.job.Source = pod.ctx.Source
        /\ pod.job.Branch = pod.ctx.Branch
        /\ pod.job.Variables = pod.ctx.TFVars

\* C40: job and step status agree after a terminal report: when SetCompleted
\* or SetPending has changed the step's status, the job's status is changed to
\* the same value by the time the report ends, also when an API call fails; a
\* step is not left completed, failed or pending while its job stays as it was.
C40_ReportKeepsJobAndStepAlike ==
    [][ \A j \in Jobs :
           (run[j].pc = "report.job" /\ run'[j].pc # "report.job") =>
               /\ stepStatus'[j][run[j].step] = ReportStatus(run[j].rep)
               /\ jobStatus'[j] = stepStatus'[j][run[j].step] ]_vars

\* ------------------------------------------------------------------------
\* Properties of the log streamer and the script runner
\* ------------------------------------------------------------------------
\* the entries of the stream that carry a log line
RECURSIVE LineEntries(_)
LineEntries(strm) ==
    IF strm = <<>> THEN <<>>
    ELSE (IF Head(strm).done THEN <<>> ELSE <<Head(strm)>>) \o LineEntries(Tail(strm))

\* C17: a failure of the Redis sink never fails a log write: every Write(p)
\* on the job's log sink returns (len(p), nil) and appends the bytes of p to
\* the in-memory buffer, whether or not XADD succeeds.
C17_RedisFailureNeverFailsWrite ==
    [][written' # written =>
          /\ ret'.n = Len(ret'.p)
          /\ ~ret'.err
          /\ logBuffer' = logBuffer \o ret'.p
          /\ Len(logBuffer') = written']_vars

\* a line whose XADD failed is missing from the stream, and its bytes are in
\* the buffer
W_C17 ==
    /\ written > 0
    /\ lineNumber > Len(LineEntries(stream))
    /\ ret.n = Len(ret.p) /\ ~ret.err
    /\ Len(logBuffer) = written
    /\ \E i \in 1..Len(logBuffer) : logBuffer[i] = Newline

RECURSIVE SplitLines(_)
\* the lines of a byte sequence: its newline-terminated lines without their
\* newline, then the rest after the last newline if it is not empty
SplitLines(content) ==
    LET idx == IndexByte(content)
    IN  IF idx = 0 THEN (IF content = <<>> THEN <<>> ELSE <<content>>)
        ELSE <<SubSeq(content, 1, idx - 1)>>
                \o SplitLines(SubSeq(content, idx + 1, Len(content)))

RECURSIVE JoinLines(_)
\* the lines joined with newlines between them
JoinLines(lines) ==
    IF lines = <<>> THEN <<>>
    ELSE IF Len(lines) = 1 THEN lines[1]
    ELSE lines[1] \o <<Newline>> \o JoinLines(Tail(lines))

\* the output fields of the line entries of the stream, in stream order
Outputs == [i \in 1..Len(LineEntries(stream)) |-> LineEntries(stream)[i].output]

\* the sentinel is in the stream, as its last entry and nowhere else
SentinelLast ==
    /\ stream # <<>>
    /\ \A i \in 1..Len(stream) : stream[i].done <=> i = Len(stream)

\* the bytes without their final newline, if they end with one
TrimFinalNewline(bytes) ==
    IF bytes # <<>> /\ bytes[Len(bytes)] = Newline
    THEN SubSeq(bytes, 1, Len(bytes) - 1) ELSE bytes

\* C28 as stated: after Close the stream holds one entry per line written,
\* in order, then the sentinel as its last entry, and the output fields joined
\* with newlines are the bytes written.
C28_StreamReproducesBytes ==
    closed =>
        /\ Outputs = SplitLines(logBuffer)
        /\ SentinelLast
        /\ JoinLines(Outputs) = logBuffer

\* C28, amended: after Close every line entry of the stream carries the line
\* of the bytes written that its lineNumber counts, the line entries are in
\* write order, and a sentinel in the stream is its last entry; when no XADD
\* failed the stream holds one entry per line and the sentinel, and the output
\* fields joined with newlines are the bytes written without their final
\* newline.
C28_StreamHoldsLinesInOrder ==
    closed =>
        LET lines == SplitLines(logBuffer)
            entries == LineEntries(stream)
        IN  /\ \A i \in 1..Len(entries) :
                  /\ entries[i].lineNumber \in 1..Len(lines)
                  /\ entries[i].output = lines[entries[i].lineNumber]
            /\ \A i \in 1..Len(entries), k \in 1..Len(entries) :
                  i < k => entries[i].lineNumber < entries[k].lineNumber
            /\ \A i \in 1..Len(stream) : stream[i].done => i = Len(stream)
            /\ lineNumber = Len(lines)
            /\ Len(stream) = Len(lines) + 1
                  => /\ Outputs = lines
                     /\ SentinelLast
                     /\ JoinLines(Outputs) = TrimFinalNewline(logBuffer)

\* a line, an empty line and a partial line were written, no XADD failed, and
\* the closed stream holds the three entries and the sentinel
W_C28 ==
    /\ closed
    /\ logBuffer = <<"a", Newline, Newline, "a">>
    /\ Len(stream) = 4
    /\ stream[3] = LineEntry(3, <<"a">>)
    /\ stream[4] = DoneEntry

\* C6: after Close, the line entries of the stream are numbered 1, 2, ..., n
\* in stream order, whatever the blocks were and whichever XADD calls failed.
C6_LineNumbersOneToN ==
    closed => \A i \in 1..Len(LineEntries(stream)) : LineEntries(stream)[i].lineNumber = i

\* C7: ExecutePhase runs the commands of the phase in ascending priority, and
\* commands of equal priority in their order in CommandList.
C7_StablePriorityOrder ==
    lastCall \in Phases =>
        \A i \in 1..Len(executed), k \in 1..Len(executed) :
            i < k => \/ CommandList[executed[i]].Priority < CommandList[executed[k]].Priority
                     \/ /\ CommandList[executed[i]].Priority = CommandList[executed[k]].Priority
                        /\ executed[i] < executed[k]

\* the commands a call selects: all for Execute, those of the phase for ExecutePhase
Selected ==
    IF lastCall = "Execute" THEN 1..Len(CommandList)
    ELSE { i \in 1..Len(CommandList) :
             \E k \in 1..Len(filterByPhase(CommandList, lastCall)) :
                 filterByPhase(CommandList, lastCall)[k].Script = i }

\* C8: Execute and ExecutePhase stop at the first script that exits non-zero
\* and return an error: every script run but the last one succeeded, the call
\* fails exactly when the last one failed, no script sorted after the failing
\* one is started, and without a failure every selected script runs once.
C8_StopAtFirstFailure ==
    lastCall # "none" =>
        /\ \A i \in 1..Len(executed) : executed[i] \in Selected
        /\ \A i \in 1..Len(executed), k \in 1..Len(executed) :
              i # k => executed[i] # executed[k]
        /\ \A i \in 1..(Len(executed) - 1) : CommandList[executed[i]].ok
        /\ execErr <=> (executed # <<>> /\ ~CommandList[executed[Len(executed)]].ok)
        /\ ~execErr => Len(executed) = Cardinality(Selected)
        /\ execErr => \A c \in Selected :
                         (\A i \in 1..Len(executed) : executed[i] # c)
                            => CommandList[c].Priority
                                  >= CommandList[executed[Len(executed)]].Priority

W_C8 ==
    /\ lastCall \in Phases
    /\ execErr
    /\ Len(executed) = 2
    /\ Cardinality(Selected) = 3

====
